---- MODULE Spec2Model ----
(***************************************************************************)
(* EnhancedPDFProcessor: the per-page extraction / reconciliation pipeline *)
(* (performEnhancedOCR, performGeminiExtraction, the grouping helpers) and *)
(* the page-completion handler that drives it, together with the two       *)
(* vision-model calls of geminiService.ts.                                 *)
(*                                                                         *)
(* Representation.  A string is a sequence of one-character strings.       *)
(* A normalised coordinate in [0,1] is an integer number of 1/Unit, a      *)
(* percentage is an integer number of 1/PctUnit percent, a confidence in   *)
(* [0,1] is an integer number of 1/ConfUnit.  Pixel values are integers.   *)
(***************************************************************************)
EXTENDS Integers, Sequences, FiniteSets, TLC

\* ------------------------------------------------------------------ units
Unit == 1000 * 1000
\* a pixel value with a fraction is an integer number of 1/Sub pixel
Sub == 10 * 10
\* a font size is an integer number of 1/FontUnit
FontUnit == 5 * 2
PctUnit == 10 * 10
ConfUnit == 36 * 100

Max(a, b) == IF a >= b THEN a ELSE b
Min(a, b) == IF a <= b THEN a ELSE b
Abs(a) == IF a < 0 THEN 0 - a ELSE a

\* a / b of two pixel values, as a normalised coordinate
Norm(a, b) == (a * Unit) \div b
\* a normalised coordinate times 100, as a percentage
NormToPct(n) == n \div (Unit \div (100 * PctUnit))
\* a pixel or percentage number taken as a percentage
Pct(n) == n * PctUnit
\* an engine score 0..100 divided by 100, as a confidence
ScoreToConf(s) == (s * ConfUnit) \div 100

\* ---------------------------------------------------------------- strings
IsWs(c) == c \in {" ", "\n"}

LowerChar(c) == IF c = "A" THEN "a" ELSE IF c = "B" THEN "b" ELSE c

\* String.prototype.toLowerCase
ToLower(s) == [i \in 1..Len(s) |-> LowerChar(s[i])]

RECURSIVE TrimStart(_)
TrimStart(s) == IF s # <<>> /\ IsWs(Head(s)) THEN TrimStart(Tail(s)) ELSE s

RECURSIVE TrimEnd(_)
TrimEnd(s) ==
  IF s # <<>> /\ IsWs(s[Len(s)]) THEN TrimEnd(SubSeq(s, 1, Len(s) - 1)) ELSE s

\* String.prototype.trim
Trim(s) == TrimEnd(TrimStart(s))

\* truthiness of a string / of s.trim()
Truthy(s) == s # <<>>
NonBlank(s) == Trim(s) # <<>>

\* String.prototype.includes
Includes(hay, needle) ==
  \E i \in 0..(Len(hay) - Len(needle)) : SubSeq(hay, i + 1, i + Len(needle)) = needle

\* Array.prototype.join
RECURSIVE Join(_, _)
Join(ss, sep) ==
  IF ss = <<>> THEN <<>>
  ELSE IF Len(ss) = 1 THEN ss[1]
  ELSE ss[1] \o sep \o Join(Tail(ss), sep)

\* s.split(/\s+/): a maximal run of white space separates two tokens, so a
\* string that starts or ends with white space yields an empty token there.
\* The tokens of s from position i on, cur being the part of the first one
\* that lies before i
RECURSIVE SplitFrom(_, _, _)
SplitFrom(s, i, cur) ==
  LET spaces == {j \in i..Len(s) : IsWs(s[j])}
  IN IF spaces = {} THEN <<cur \o SubSeq(s, i, Len(s))>>
     ELSE LET first == CHOOSE j \in spaces : \A k \in spaces : j <= k
              rest == {j \in first..Len(s) : ~IsWs(s[j])}
          IN IF rest = {} THEN <<cur \o SubSeq(s, i, first - 1), <<>>>>
             ELSE <<cur \o SubSeq(s, i, first - 1)>>
                    \o SplitFrom(s, CHOOSE j \in rest : \A k \in rest : j <= k, <<>>)

SplitWs(s) == SplitFrom(s, 1, <<>>)

\* Array.prototype.map on sequences (filter is SelectSeq)
MapSeq(xs, F(_)) == [i \in 1..Len(xs) |-> F(xs[i])]

RECURSIVE Flatten(_)
Flatten(xss) == IF xss = <<>> THEN <<>> ELSE Head(xss) \o Flatten(Tail(xss))

RECURSIVE SumSeq(_)
SumSeq(ns) == IF ns = <<>> THEN 0 ELSE Head(ns) + SumSeq(Tail(ns))

\* text.split(/\s+/).filter(w => w.trim())
Tokens(s) == SelectSeq(SplitWs(s), NonBlank)

\* ------------------------------------------------------ program constants
\* groupWordsIntoLines: sort tie threshold 0.01, same-line threshold 0.02
SortTieThreshold == 10000
LineThreshold == 20000
\* groupLinesIntoBlocks: vertical gap 0.03
BlockGapThreshold == 30000
\* coverage-gap repair: completeText.length > extractedText.length * 1.2,
\* as the ratio GapNum / GapDen
GapNum == 6
GapDen == 5
\* confidence of a native text-layer Word, 0.98
NativeScore == 98
\* default block confidence 0.8 and its floor 0.7 for a semantic match
DefaultBlockScore == 80
MinSemanticScore == 70
\* default line scores: (line.confidence || 80), (line.confidence || 70)
DefaultLineScore == 80
FallbackLineScore == 70
\* confidence 0.6 of the words of the synthetic grid
GridScore == 60

\* ocrConfigs: the three configurations of the primary path, in list order.
\* PSM.SINGLE_BLOCK and PSM.AUTO_OSD are the engine's page-segmentation modes.
OcrConfigs ==
  << [name |-> "SINGLE_UNIFORM_BLOCK", psm |-> "SINGLE_BLOCK"],
     [name |-> "AUTO_OSD", psm |-> "AUTO_OSD"],
     [name |-> "SINGLE_BLOCK", psm |-> "SINGLE_BLOCK"] >>

\* the argument of worker.setParameters for a configuration of the primary
\* path; "unset" is a parameter the call does not set
PrimaryParams(config) ==
  [ tessedit_char_whitelist |-> "whitelist",
    preserve_interword_spaces |-> "1",
    tessedit_pageseg_mode |-> config.psm,
    tessedit_write_images |-> "0",
    user_defined_dpi |-> "300" ]

\* the argument of worker.setParameters on the vision-failure path
FallbackParams ==
  [ tessedit_char_whitelist |-> "whitelist",
    preserve_interword_spaces |-> "1",
    tessedit_pageseg_mode |-> "SINGLE_BLOCK",
    tessedit_write_images |-> "unset",
    user_defined_dpi |-> "unset" ]

\* the argument of worker.setParameters when advanced processing is disabled
PlainParams ==
  [ tessedit_char_whitelist |-> "whitelist",
    preserve_interword_spaces |-> "1",
    tessedit_pageseg_mode |-> "unset",
    tessedit_write_images |-> "unset",
    user_defined_dpi |-> "unset" ]

\* --------------------------------------------------------------- geometry
BBox(x, y, w, h) == [x |-> x, y |-> y, width |-> w, height |-> h]

SetMin(S) == CHOOSE m \in S : \A n \in S : m <= n
SetMax(S) == CHOOSE m \in S : \A n \in S : m >= n

\* a box from the least corner whose width and height are the greatest right
\* and bottom edges themselves
calculateBoundingBoxFromOrigin(bboxes) ==
  IF Len(bboxes) = 0 THEN BBox(0, 0, 0, 0)
  ELSE LET idx == 1..Len(bboxes)
       IN BBox(SetMin({bboxes[i].x : i \in idx}), SetMin({bboxes[i].y : i \in idx}),
               SetMax({bboxes[i].x + bboxes[i].width : i \in idx}),
               SetMax({bboxes[i].y + bboxes[i].height : i \in idx}))

\* calculateBoundingBox
calculateBoundingBox(bboxes) ==
  IF Len(bboxes) = 0 THEN BBox(0, 0, 0, 0)
  ELSE LET idx == 1..Len(bboxes)
           minX == SetMin({bboxes[i].x : i \in idx})
           minY == SetMin({bboxes[i].y : i \in idx})
           maxX == SetMax({bboxes[i].x + bboxes[i].width : i \in idx})
           maxY == SetMax({bboxes[i].y + bboxes[i].height : i \in idx})
       IN BBox(minX, minY, maxX - minX, maxY - minY)

\* --------------------------------------------------------------- grouping
\* the comparator of the sort in groupWordsIntoLines
CompareWords(a, b) ==
  LET yDiff == a.bbox.y - b.bbox.y
  IN IF Abs(yDiff) < SortTieThreshold THEN a.bbox.x - b.bbox.x ELSE yDiff

\* [...words].sort(comparator): a stable insertion sort, the engine's
\* algorithm for short arrays
RECURSIVE InsertWord(_, _)
InsertWord(xs, w) ==
  IF xs = <<>> THEN <<w>>
  ELSE IF CompareWords(xs[Len(xs)], w) > 0
       THEN InsertWord(SubSeq(xs, 1, Len(xs) - 1), w) \o <<xs[Len(xs)]>>
       ELSE xs \o <<w>>

RECURSIVE SortWords(_)
SortWords(ws) ==
  IF ws = <<>> THEN <<>>
  ELSE InsertWord(SortWords(SubSeq(ws, 1, Len(ws) - 1)), ws[Len(ws)])

\* a same-line test with the threshold of the block gap
SameLineWide(currentWord, lastWordInLine) ==
  Abs(currentWord.bbox.y - lastWordInLine.bbox.y) < BlockGapThreshold

\* the test that keeps a Word on the current line
SameLine(currentWord, lastWordInLine) ==
  Abs(currentWord.bbox.y - lastWordInLine.bbox.y) < LineThreshold

\* the scan of groupWordsIntoLines over the sorted words: lines is the list
\* of closed lines, cur the current line
RECURSIVE ScanWords(_, _, _)
ScanWords(sorted, lines, cur) ==
  IF sorted = <<>> THEN Append(lines, cur)
  ELSE IF SameLine(Head(sorted), cur[Len(cur)])
       THEN ScanWords(Tail(sorted), lines, Append(cur, Head(sorted)))
       ELSE ScanWords(Tail(sorted), Append(lines, cur), <<Head(sorted)>>)

\* a grouping that forgets the Line still open when the words run out
groupWordsDroppingLastLine(words) ==
  IF Len(words) = 0 THEN <<>>
  ELSE LET sortedWords == SortWords(words)
           closed == ScanWords(Tail(sortedWords), <<>>, <<Head(sortedWords)>>)
       IN SubSeq(closed, 1, Len(closed) - 1)

groupWordsIntoLines(words) ==
  IF Len(words) = 0 THEN <<>>
  ELSE LET sortedWords == SortWords(words)
       IN ScanWords(Tail(sortedWords), <<>>, <<Head(sortedWords)>>)

\* a new-block test that measures the gap from the top of the last line
NewBlockFromTop(currentLine, lastLineInBlock) ==
  currentLine.bbox.y - lastLineInBlock.bbox.y > BlockGapThreshold

\* the test that starts a new Block
NewBlock(currentLine, lastLineInBlock) ==
  currentLine.bbox.y - (lastLineInBlock.bbox.y + lastLineInBlock.bbox.height)
    > BlockGapThreshold

RECURSIVE ScanLines(_, _, _)
ScanLines(rest, blocks, cur) ==
  IF rest = <<>> THEN Append(blocks, cur)
  ELSE IF NewBlock(Head(rest), cur[Len(cur)])
       THEN ScanLines(Tail(rest), Append(blocks, cur), <<Head(rest)>>)
       ELSE ScanLines(Tail(rest), blocks, Append(cur, Head(rest)))

groupLinesIntoBlocks(lines) ==
  IF Len(lines) = 0 THEN <<>>
  ELSE ScanLines(Tail(lines), <<>>, <<Head(lines)>>)

\* the Line objects built from groupWordsIntoLines (id `line-${lineIndex}`,
\* readingOrder lineIndex, counted from 0)
MakeLines(words) ==
  LET groupedLines == groupWordsIntoLines(words)
  IN [i \in 1..Len(groupedLines) |->
        [ id |-> <<"line", i - 1>>,
          words |-> groupedLines[i],
          bbox |-> calculateBoundingBox(MapSeq(groupedLines[i], LAMBDA w : w.bbox)),
          readingOrder |-> i - 1,
          alignment |-> "left" ]]

\* ------------------------------------------------------- words and chunks
MakeWord(text, bbox, confidence, fontFamily, fontSize) ==
  [ text |-> text, bbox |-> bbox, confidence |-> confidence,
    fontFamily |-> fontFamily, fontSize |-> fontSize ]

\* a LegacyTextChunk; its id is nanoid(), a fresh random string that no
\* step of the pipeline reads, and is left out
MakeChunk(text, pageNumber, x, y, w, h) ==
  [ text |-> text, pageNumber |-> pageNumber,
    geometry |-> [x |-> x, y |-> y, w |-> w, h |-> h] ]

\* ocrWord.bbox is present
NoBox == [none |-> TRUE]
HasBox(o) == o.bbox # NoBox

\* ---------------------------------------------- stage 1: native text layer
\* the items of pdfTextItems that pass `item.str && item.str.trim()`
NativeItems(pdfTextItems) == SelectSeq(pdfTextItems, LAMBDA item : NonBlank(item.str))

\* the Word built from one native item; transform[k] of the source is
\* transform[k + 1] here
NativeWord(item, canvas) ==
  LET x == item.transform[5]
      y == item.transform[6]
      fontSize == Abs(item.transform[1])
      textWidth == IF item.width # 0 THEN item.width * Sub
                   ELSE Len(item.str) * fontSize * 6 * (Sub \div 10)
      textHeight == IF item.height # 0 THEN item.height ELSE fontSize
  IN MakeWord(item.str,
              BBox(Norm(x, canvas.width),
                   Norm(canvas.height - y - textHeight, canvas.height),
                   (textWidth * (Unit \div Sub)) \div canvas.width,
                   Norm(textHeight, canvas.height)),
              ScoreToConf(NativeScore),
              item.fontName,
              fontSize * FontUnit)

NativeWords(pdfTextItems, canvas) ==
  MapSeq(NativeItems(pdfTextItems), LAMBDA item : NativeWord(item, canvas))

\* the identifiers read by the geometry of the native item's legacy chunk
\* (`Math.min(w, 100)`, `Math.min(h, 100)`) and the identifiers bound where
\* it is built: reading an unbound identifier throws a ReferenceError
NativeChunkReads == {"x", "y", "w", "h"}
NativeChunkScope ==
  {"item", "itemIndex", "transform", "x", "y", "fontSize", "textWidth", "textHeight",
   "normalizedBBox", "word", "canvas", "pageNumber", "pdfPage", "imageData",
   "geminiResult", "structureResult", "pdfTextItems", "worker", "ocrData",
   "legacyChunks", "words", "lines", "blocks"}

\* stage 1 throws as soon as one item passes the blank test
NativeStageThrows(pdfTextItems) ==
  /\ NativeItems(pdfTextItems) # <<>>
  /\ ~(NativeChunkReads \subseteq NativeChunkScope)

\* -------------------------------------------------- stage 2: OCR words
\* the words of an OCR result that pass `ocrWord.text.trim() && ocrWord.bbox`
UsableOcrWords(ocrWords) ==
  SelectSeq(ocrWords, LAMBDA o : NonBlank(o.text) /\ HasBox(o))

\* primary path: the Word of one OCR word, clamped into the page
OcrWord(o, canvas) ==
  LET nx == Norm(o.bbox.x0, canvas.width)
      ny == Norm(o.bbox.y0, canvas.height)
  IN MakeWord(o.text,
              BBox(Max(0, Min(nx, Unit)),
                   Max(0, Min(ny, Unit)),
                   Max(Unit \div 1000, Min(Norm(o.bbox.x1 - o.bbox.x0, canvas.width), Unit - nx)),
                   Max(Unit \div 1000, Min(Norm(o.bbox.y1 - o.bbox.y0, canvas.height), Unit - ny))),
              ScoreToConf(o.confidence), "Arial", 12 * FontUnit)

OcrWords(ocrWords, canvas) ==
  MapSeq(UsableOcrWords(ocrWords), LAMBDA o : OcrWord(o, canvas))

\* the legacy chunk of a Word whose geometry is its box times 100
NormChunk(word, pageNumber) ==
  MakeChunk(word.text, pageNumber, NormToPct(word.bbox.x), NormToPct(word.bbox.y),
            NormToPct(word.bbox.width), NormToPct(word.bbox.height))

\* the legacy chunk of a synthesised Word: x and y clamped to [0, 100],
\* w to [0.5, 100], h to [1.0, 100]
ClampedChunk(word, pageNumber) ==
  MakeChunk(word.text, pageNumber,
            Max(0, Min(NormToPct(word.bbox.x), Pct(100))),
            Max(0, Min(NormToPct(word.bbox.y), Pct(100))),
            Max(Pct(1) \div 2, Min(NormToPct(word.bbox.width), Pct(100))),
            Max(Pct(1), Min(NormToPct(word.bbox.height), Pct(100))))

\* ------------------------------------------- stage 3: OCR line synthesis
\* the lines that pass `line.text && line.text.trim() && line.bbox`
UsableOcrLines(ocrLines) ==
  SelectSeq(ocrLines, LAMBDA l : Truthy(l.text) /\ NonBlank(l.text) /\ HasBox(l))

\* (line.confidence || dflt) / 100
LineConfidence(line, dflt) ==
  ScoreToConf(IF line.confidence # 0 THEN line.confidence ELSE dflt)

\* primary path: the Words of the tokens of one line from token k on,
\* currentX (in 1/Sub pixel) being the left edge of token k
RECURSIVE LineWordsFrom(_, _, _, _, _)
LineWordsFrom(line, lineWords, k, currentX, canvas) ==
  IF k > Len(lineWords) THEN <<>>
  ELSE LET lineWidth == line.bbox.x1 - line.bbox.x0
           lineHeight == line.bbox.y1 - line.bbox.y0
           wordText == lineWords[k]
           wordWidth == Max((Len(wordText) * lineWidth * Sub) \div Len(line.text),
                            (lineWidth * 3 * Sub) \div 100)
           spacing == (lineWidth * Sub) \div 100
           word == MakeWord(wordText,
                            BBox((currentX * (Unit \div Sub)) \div canvas.width,
                                 Norm(line.bbox.y0, canvas.height),
                                 (wordWidth * (Unit \div Sub)) \div canvas.width,
                                 Norm(lineHeight, canvas.height)),
                            LineConfidence(line, DefaultLineScore),
                            "Arial",
                            Max(8 * FontUnit, (lineHeight * 8 * FontUnit) \div 10))
       IN <<word>> \o LineWordsFrom(line, lineWords, k + 1,
                                    currentX + wordWidth + spacing, canvas)

LineWords(line, canvas) ==
  LineWordsFrom(line, Tokens(line.text), 1, line.bbox.x0 * Sub, canvas)

OcrLineWords(ocrLines, canvas) ==
  Flatten(MapSeq(UsableOcrLines(ocrLines), LAMBDA l : LineWords(l, canvas)))

\* ------------------------------------------- stage 4: text-flow synthesis
\* pageMargins, avgWordsPerLine, lineHeight and wordSpacing of the flow
MarginTop == 80000
MarginBottom == 80000
MarginLeft == 60000
MarginRight == 60000
AvgWordsPerLine == 12
FlowLineHeight == 25000
WordSpacing == 8000
ContentWidth == Unit - MarginLeft - MarginRight

\* the Words of the tokens of the vision-model text from token k on
\* (wordIndex = k - 1), the cursor being at (currentX, currentY)
RECURSIVE FlowWordsFrom(_, _, _, _, _)
FlowWordsFrom(textWords, k, currentX, currentY, confidence) ==
  IF k > Len(textWords) THEN <<>>
  ELSE LET wordText == textWords[k]
           avgCharWidth == ContentWidth \div (AvgWordsPerLine * 7)
           wordWidth == Max(Len(wordText) * avgCharWidth, (ContentWidth * 2) \div 100)
           wrap == \/ currentX + wordWidth > Unit - MarginRight
                   \/ (k - 1 > 0 /\ (k - 1) % AvgWordsPerLine = 0)
           x1 == IF wrap THEN MarginLeft ELSE currentX
           y1 == IF wrap THEN currentY + (FlowLineHeight * 12) \div 10 ELSE currentY
           over == y1 + FlowLineHeight > Unit - MarginBottom
           x2 == IF over THEN x1 + ContentWidth \div 2 ELSE x1
           y2 == IF over THEN MarginTop ELSE y1
           word == MakeWord(wordText, BBox(x2, y2, wordWidth, FlowLineHeight),
                            confidence, "Arial", 12 * FontUnit)
       IN <<word>> \o FlowWordsFrom(textWords, k + 1, x2 + wordWidth + WordSpacing,
                                    y2, confidence)

FlowWords(geminiResult) ==
  FlowWordsFrom(Tokens(geminiResult.text), 1, MarginLeft, MarginTop,
                geminiResult.confidence)

\* ------------------------------------------------- stage 5: placeholder
PlaceholderText == <<"N", "o", " ", "t", "e", "x", "t", " ", "d", "e", "t", "e", "c", "t", "e", "d">>
PlaceholderX == 10
PlaceholderY == 10
PlaceholderW == 20
PlaceholderH == 5

PlaceholderChunk(pageNumber) ==
  MakeChunk(PlaceholderText, pageNumber, Pct(PlaceholderX), Pct(PlaceholderY),
            Pct(PlaceholderW), Pct(PlaceholderH))

\* ------------------------------------------------------------ the ladder
\* STEP 3 - STEP 5 of the primary path: the words and legacy chunks chosen
\* from the native items, the accepted OCR result (NoData when no
\* configuration was accepted) and the vision-model text
NoData == [kind |-> "null"]

LadderSource(pdfTextItems, ocrData) ==
  IF Len(pdfTextItems) > 0 THEN "native"
  ELSE IF ocrData # NoData THEN "ocrWords"
  ELSE "none"

\* the words present after the `if / else if` of STEP 3
PreciseWords(pdfTextItems, ocrData, geminiResult, canvas) ==
  LET source == LadderSource(pdfTextItems, ocrData)
  IN IF source = "native" THEN NativeWords(pdfTextItems, canvas)
     ELSE IF source = "ocrWords" THEN OcrWords(ocrData.words, canvas)
     ELSE <<>>

\* Strategy 1 of STEP 4 set fallbackCoordinatesCreated
LineStrategyApplies(ocrData) ==
  /\ ocrData # NoData
  /\ Len(ocrData.lines) > 0
  /\ UsableOcrLines(ocrData.lines) # <<>>

\* which stage supplied the words of the page
LadderStage(pdfTextItems, ocrData, geminiResult, canvas) ==
  IF PreciseWords(pdfTextItems, ocrData, geminiResult, canvas) # <<>>
  THEN LadderSource(pdfTextItems, ocrData)
  ELSE IF LineStrategyApplies(ocrData) THEN "ocrLines"
  ELSE IF Truthy(geminiResult.text) THEN "textFlow"
  ELSE "none"

LadderWords(pdfTextItems, ocrData, geminiResult, canvas) ==
  LET stage == LadderStage(pdfTextItems, ocrData, geminiResult, canvas)
  IN IF stage \in {"native", "ocrWords"}
     THEN PreciseWords(pdfTextItems, ocrData, geminiResult, canvas)
     ELSE IF stage = "ocrLines" THEN OcrLineWords(ocrData.lines, canvas)
     ELSE IF stage = "textFlow" THEN FlowWords(geminiResult)
     ELSE <<>>

LadderChunks(pdfTextItems, ocrData, geminiResult, canvas, pageNumber) ==
  LET stage == LadderStage(pdfTextItems, ocrData, geminiResult, canvas)
      ws == LadderWords(pdfTextItems, ocrData, geminiResult, canvas)
  IN IF Len(ws) = 0 THEN <<PlaceholderChunk(pageNumber)>>
     ELSE IF stage = "ocrWords" THEN MapSeq(ws, LAMBDA w : NormChunk(w, pageNumber))
     ELSE MapSeq(ws, LAMBDA w : ClampedChunk(w, pageNumber))

\* ------------------------------------------------------ vision-model calls
\* The remote response of a call is a record: kind "error" (the call threw,
\* with a status, 0 when the error has none), "json" (the response holds a
\* JSON object) or "raw" (it holds none, or one that does not parse).
NoStatus == 0

\* extractTextWithGemini: the value returned for a response that is no error
ExtractText(resp) ==
  IF resp.kind = "json"
  THEN [ text |-> IF Truthy(resp.parsedText) THEN resp.parsedText ELSE resp.text,
         confidence |-> IF resp.parsedScore # 0 THEN ScoreToConf(resp.parsedScore)
                        ELSE ScoreToConf(95) ]
  ELSE [ text |-> resp.text, confidence |-> ScoreToConf(85) ]

\* extractTextWithGemini: the error thrown for an error response, a new Error
\* built from the message alone; cause is the status of the error that the
\* function caught and logged, which the new Error does not carry
ExtractTextError(resp) ==
  [status |-> NoStatus, message |-> "Gemini text extraction failed", cause |-> resp.status]

\* the warning the catch block of performGeminiExtraction logs for an error
FailureClass(error) ==
  IF error.status = 503 THEN "service-unavailable"
  ELSE IF error.status >= 400 THEN "api-error"
  ELSE "unknown"

\* the catch block's record of an error: the error and the warning logged
CatchError(error) == [error |-> error, logged |-> FailureClass(error)]

ParagraphOf(completeText, score) ==
  << [type |-> "paragraph", content |-> completeText, confidence |-> ScoreToConf(score)] >>

\* analyzeDocumentStructure
analyzeDocumentStructure(resp, fallbackText) ==
  IF resp.kind = "error"
  THEN [ layout |-> "single-column",
         elements |-> ParagraphOf(fallbackText, 50),
         completeText |-> fallbackText ]
  ELSE IF resp.kind = "json"
  THEN LET c1 == resp.completeText
           c2 == IF ~Truthy(c1) /\ Truthy(fallbackText) THEN fallbackText ELSE c1
           c3 == IF ~Truthy(c2) /\ resp.hasElements
                 THEN Trim(Join(MapSeq(resp.elements, LAMBDA el : el.content), <<"\n">>))
                 ELSE c2
           completeText == IF ~Truthy(c3) THEN resp.text ELSE c3
       IN [ layout |-> "single-column",
            elements |-> IF resp.hasElements THEN resp.elements
                         ELSE ParagraphOf(completeText, 70),
            completeText |-> completeText ]
  ELSE LET completeText == IF Truthy(fallbackText) THEN fallbackText ELSE resp.text
       IN [ layout |-> "single-column",
            elements |-> ParagraphOf(completeText, 70),
            completeText |-> completeText ]

\* ------------------------------------------------------ semantic labelling
\* elementType.toLowerCase() for the type strings of the model
LowerType(t) ==
  CASE t = "Title" -> "title"
    [] t = "FOOTER" -> "footer"
    [] t = "HEADER" -> "header"
    [] t = "Table" -> "table"
    [] OTHER -> t

\* a mapping whose default hands the lower-cased type through
mapElementTypeAsGiven(elementType) ==
  LET t == LowerType(elementType)
  IN IF t \in {"title", "header"} THEN "heading" ELSE t

mapElementTypeToBlockType(elementType) ==
  LET t == LowerType(elementType)
  IN IF t \in {"title", "header"} THEN "heading"
     ELSE IF t = "table" THEN "table"
     ELSE IF t = "list" THEN "list"
     ELSE IF t = "footer" THEN "footer"
     ELSE IF t = "image" THEN "image"
     ELSE "paragraph"

\* Map.prototype.set on a Map kept as a sequence of <<key, value>> in
\* insertion order: a known key keeps its place and takes the new value
MapSet(m, key, value) ==
  IF \E i \in 1..Len(m) : m[i][1] = key
  THEN [i \in 1..Len(m) |-> IF m[i][1] = key THEN <<key, value>> ELSE m[i]]
  ELSE Append(m, <<key, value>>)

RECURSIVE SemanticMapFrom(_, _)
SemanticMapFrom(elements, m) ==
  IF elements = <<>> THEN m
  ELSE LET element == Head(elements)
       IN IF NonBlank(element.content)
          THEN SemanticMapFrom(Tail(elements),
                 MapSet(m, Trim(ToLower(element.content)),
                        [type |-> element.type, confidence |-> element.confidence,
                         role |-> element.type]))
          ELSE SemanticMapFrom(Tail(elements), m)

SemanticMap(structureResult) == SemanticMapFrom(structureResult.elements, <<>>)

\* the text of a list of lines: words joined by " ", lines by "\n"
LinesText(blockLines) ==
  Join(MapSeq(blockLines,
              LAMBDA line : Join(MapSeq(line.words, LAMBDA word : word.text), <<" ">>)),
       <<"\n">>)

Undefined == "undefined"

\* the semanticInfo of a block: the first entry of the map that contains,
\* or is contained in, the block's text
SemanticInfo(blockLines, semanticMap) ==
  LET blockText == Trim(ToLower(LinesText(blockLines)))
      hits == {i \in 1..Len(semanticMap) :
                  \/ Includes(blockText, semanticMap[i][1])
                  \/ Includes(semanticMap[i][1], blockText)}
  IN IF hits = {}
     THEN [type |-> "paragraph", confidence |-> ScoreToConf(DefaultBlockScore),
           role |-> Undefined]
     ELSE LET info == semanticMap[SetMin(hits)][2]
          IN [type |-> info.type,
              confidence |-> Max(info.confidence, ScoreToConf(MinSemanticScore)),
              role |-> info.role]

\* the Block objects of the primary path
MakeBlocks(lines, structureResult) ==
  LET groupedBlocks == groupLinesIntoBlocks(lines)
      semanticMap == SemanticMap(structureResult)
  IN [i \in 1..Len(groupedBlocks) |->
        LET semanticInfo == SemanticInfo(groupedBlocks[i], semanticMap)
        IN [ id |-> <<"block", i - 1>>,
             type |-> mapElementTypeToBlockType(semanticInfo.type),
             bbox |-> calculateBoundingBox(MapSeq(groupedBlocks[i], LAMBDA l : l.bbox)),
             lines |-> groupedBlocks[i],
             confidence |-> semanticInfo.confidence,
             semanticRole |-> semanticInfo.role,
             readingOrder |-> i - 1 ]]

\* ------------------------------------------------------ coverage-gap repair
ExtractedText(words) == Join(MapSeq(words, LAMBDA w : w.text), <<" ">>)

\* structureResult.completeText || geminiResult.text
CompleteText(structureResult, geminiResult) ==
  IF Truthy(structureResult.completeText) THEN structureResult.completeText
  ELSE geminiResult.text

\* the margin test with `>=` in place of `>`
GapFiresAtMargin(completeLength, extractedLength) ==
  completeLength * GapDen >= extractedLength * GapNum

\* completeText.length > extractedText.length * 1.2
GapFires(completeLength, extractedLength) ==
  completeLength * GapDen > extractedLength * GapNum

\* the filter without the test against the recognised text
MissingTextElementsUnfiltered(structureResult, extractedText) ==
  SelectSeq(structureResult.elements,
            LAMBDA element : Len(Trim(ToLower(element.content))) > 0)

\* missingTextElements
MissingTextElements(structureResult, extractedText) ==
  SelectSeq(structureResult.elements,
            LAMBDA element :
              LET elementText == Trim(ToLower(element.content))
              IN Len(elementText) > 0 /\ ~Includes(ToLower(extractedText), elementText))

\* geometry of the repair: fallbackBBox and the boxes of its words
RepairX == 100000
RepairY == 800000
RepairStep == 50000
RepairWidth == 800000
RepairHeight == 40000
RepairWordWidth == 50000
RepairCharWidth == 10000

\* the Words of the index-th (from 0) missing element
RepairWords(element, index) ==
  LET parts == SplitWs(element.content)
  IN [k \in 1..Len(parts) |->
        MakeWord(parts[k],
                 BBox(RepairX + (k - 1) * RepairStep,
                      RepairY + index * RepairStep,
                      Min(RepairWordWidth, Len(parts[k]) * RepairCharWidth),
                      RepairHeight),
                 element.confidence, "Arial", 12 * FontUnit)]

\* the Line of the index-th missing element; linesLength is lines.length
\* when it is built
RepairLine(element, index, linesLength) ==
  [ id |-> <<"fallback-line", index>>,
    words |-> RepairWords(element, index),
    bbox |-> BBox(RepairX, RepairY + index * RepairStep, RepairWidth, RepairHeight),
    readingOrder |-> linesLength + index,
    alignment |-> "left" ]

\* a repair Block that is always put at the first position of the stack
RepairBlockAtTop(element, index, linesLength, blocksLength) ==
  [ id |-> <<"fallback-block", index>>,
    type |-> mapElementTypeToBlockType(element.type),
    bbox |-> BBox(RepairX, RepairY, RepairWidth, RepairHeight),
    lines |-> <<RepairLine(element, index, linesLength)>>,
    confidence |-> element.confidence,
    semanticRole |-> element.type,
    readingOrder |-> blocksLength + index ]

RepairBlock(element, index, linesLength, blocksLength) ==
  [ id |-> <<"fallback-block", index>>,
    type |-> mapElementTypeToBlockType(element.type),
    bbox |-> BBox(RepairX, RepairY + index * RepairStep, RepairWidth, RepairHeight),
    lines |-> <<RepairLine(element, index, linesLength)>>,
    confidence |-> element.confidence,
    semanticRole |-> element.type,
    readingOrder |-> blocksLength + index ]

\* STEP 5 (completeness): the page's words, lines, blocks and chunks after
\* the repair; every iteration pushes one line and one block, so the
\* index-th iteration sees the lists index longer than before the loop
Repair(words, lines, blocks, chunks, structureResult, geminiResult, pageNumber) ==
  LET extractedText == ExtractedText(words)
      completeText == CompleteText(structureResult, geminiResult)
      missing == IF GapFires(Len(completeText), Len(extractedText))
                 THEN MissingTextElements(structureResult, extractedText)
                 ELSE <<>>
      n == Len(missing)
      newWords == [i \in 1..n |-> RepairWords(missing[i], i - 1)]
  IN [ words |-> words \o Flatten(newWords),
       lines |-> lines \o [i \in 1..n |->
                   RepairLine(missing[i], i - 1, Len(lines) + i - 1)],
       blocks |-> blocks \o [i \in 1..n |->
                   RepairBlock(missing[i], i - 1, Len(lines) + i - 1, Len(blocks) + i - 1)],
       legacyChunks |-> chunks \o
          MapSeq(Flatten(newWords), LAMBDA w : ClampedChunk(w, pageNumber)) ]

\* the locals of the primary path after STEP 5: the stage that supplied the
\* words, the words and the legacy chunks
Ladder(pdfTextItems, ocrData, geminiResult, canvas, pageNumber) ==
  [ stage |-> LadderStage(pdfTextItems, ocrData, geminiResult, canvas),
    words |-> LadderWords(pdfTextItems, ocrData, geminiResult, canvas),
    legacyChunks |-> LadderChunks(pdfTextItems, ocrData, geminiResult, canvas, pageNumber) ]

\* the page the primary path returns when no step throws
PrimaryPage(pdfTextItems, ocrData, geminiResult, structureResult, canvas, pageNumber) ==
  LET words == LadderWords(pdfTextItems, ocrData, geminiResult, canvas)
      chunks == LadderChunks(pdfTextItems, ocrData, geminiResult, canvas, pageNumber)
      lines == MakeLines(words)
      blocks == MakeBlocks(lines, structureResult)
      r == Repair(words, lines, blocks, chunks, structureResult, geminiResult, pageNumber)
  IN [ legacyChunks |-> r.legacyChunks,
       irPage |-> [ pageNumber |-> pageNumber, width |-> canvas.width,
                    height |-> canvas.height, words |-> r.words,
                    lines |-> r.lines, blocks |-> r.blocks ] ]

\* ------------------------------------------- vision-failure path (catch)
\* the Word of one OCR word as the catch block and the plain path build it
RawOcrWord(o, canvas) ==
  MakeWord(o.text,
           BBox(Norm(o.bbox.x0, canvas.width), Norm(o.bbox.y0, canvas.height),
                Norm(o.bbox.x1 - o.bbox.x0, canvas.width),
                Norm(o.bbox.y1 - o.bbox.y0, canvas.height)),
           ScoreToConf(o.confidence), "Arial", 12 * FontUnit)

\* its legacy chunk: the geometry is the pixel box of the OCR word
RawOcrChunk(o, pageNumber) ==
  MakeChunk(o.text, pageNumber, Pct(o.bbox.x0), Pct(o.bbox.y0),
            Pct(o.bbox.x1 - o.bbox.x0), Pct(o.bbox.y1 - o.bbox.y0))

\* catch block, Strategy 1: token k (from 0) of a line, wordWidth being the
\* line's width divided by its number of tokens, in 1/Sub pixel
EmergencyLineWord(line, lineWords, k, canvas) ==
  LET wordWidth == ((line.bbox.x1 - line.bbox.x0) * Sub) \div Len(lineWords)
      wordX == line.bbox.x0 * Sub + k * wordWidth
  IN MakeWord(lineWords[k + 1],
              BBox((wordX * (Unit \div Sub)) \div canvas.width,
                   Norm(line.bbox.y0, canvas.height),
                   (wordWidth * (Unit \div Sub)) \div canvas.width,
                   Norm(line.bbox.y1 - line.bbox.y0, canvas.height)),
              LineConfidence(line, FallbackLineScore), "Arial", 12 * FontUnit)

EmergencyLineChunk(line, lineWords, k, pageNumber) ==
  LET wordWidth == ((line.bbox.x1 - line.bbox.x0) * Sub) \div Len(lineWords)
      wordX == line.bbox.x0 * Sub + k * wordWidth
  IN MakeChunk(lineWords[k + 1], pageNumber, (wordX * PctUnit) \div Sub,
               Pct(line.bbox.y0), (wordWidth * PctUnit) \div Sub,
               Pct(line.bbox.y1 - line.bbox.y0))

EmergencyLineWords(ocrLines, canvas) ==
  Flatten(MapSeq(UsableOcrLines(ocrLines),
                 LAMBDA l : [k \in 1..Len(Tokens(l.text)) |->
                               EmergencyLineWord(l, Tokens(l.text), k - 1, canvas)]))

EmergencyLineChunks(ocrLines, pageNumber) ==
  Flatten(MapSeq(UsableOcrLines(ocrLines),
                 LAMBDA l : [k \in 1..Len(Tokens(l.text)) |->
                               EmergencyLineChunk(l, Tokens(l.text), k - 1, pageNumber)]))

\* Math.ceil(Math.sqrt(n)) and Math.ceil(a / b)
CeilSqrt(n) == CHOOSE k \in 0..n : k * k >= n /\ (k = 0 \/ (k - 1) * (k - 1) < n)
CeilDiv(a, b) == (a + b - 1) \div b

GridMaxCols == 12

\* catch block, Strategy 2: the grid cell of token wordIndex of data.text
GridBox(wordIndex, count) ==
  LET gridCols == Min(GridMaxCols, CeilSqrt(count))
      gridRows == CeilDiv(count, gridCols)
      row == wordIndex \div gridCols
      col == wordIndex % gridCols
  IN BBox(50000 + col * 80000, 100000 + (row * 700000) \div gridRows, 70000, 30000)

GridWords(text) ==
  LET textWords == Tokens(text)
  IN [k \in 1..Len(textWords) |->
        MakeWord(textWords[k], GridBox(k - 1, Len(textWords)),
                 ScoreToConf(GridScore), "Arial", 12 * FontUnit)]

\* the grid chunk: the normalised box times the canvas size, in pixels
GridChunk(word, canvas, pageNumber) ==
  MakeChunk(word.text, pageNumber,
            (word.bbox.x * canvas.width) \div (Unit \div PctUnit),
            (word.bbox.y * canvas.height) \div (Unit \div PctUnit),
            (word.bbox.width * canvas.width) \div (Unit \div PctUnit),
            (word.bbox.height * canvas.height) \div (Unit \div PctUnit))

\* which source supplies the words of the catch block
FallbackStage(data) ==
  IF UsableOcrWords(data.words) # <<>> THEN "ocrWords"
  ELSE IF Len(data.lines) > 0 /\ UsableOcrLines(data.lines) # <<>> THEN "ocrLines"
  ELSE IF Truthy(data.text) /\ Tokens(data.text) # <<>> THEN "grid"
  ELSE "none"

FallbackWords(data, canvas) ==
  LET stage == FallbackStage(data)
  IN IF stage = "ocrWords"
     THEN MapSeq(UsableOcrWords(data.words), LAMBDA o : RawOcrWord(o, canvas))
     ELSE IF stage = "ocrLines" THEN EmergencyLineWords(data.lines, canvas)
     ELSE IF stage = "grid" THEN GridWords(data.text)
     ELSE <<>>

FallbackChunks(data, canvas, pageNumber) ==
  LET stage == FallbackStage(data)
  IN IF stage = "ocrWords"
     THEN MapSeq(UsableOcrWords(data.words), LAMBDA o : RawOcrChunk(o, pageNumber))
     ELSE IF stage = "ocrLines" THEN EmergencyLineChunks(data.lines, pageNumber)
     ELSE IF stage = "grid"
     THEN MapSeq(GridWords(data.text), LAMBDA w : GridChunk(w, canvas, pageNumber))
     ELSE <<>>

\* the single block of the catch block
FallbackBlocks(words, lines) ==
  << [ id |-> <<"block", 0>>,
       type |-> "paragraph",
       bbox |-> calculateBoundingBox(MapSeq(words, LAMBDA w : w.bbox)),
       lines |-> lines,
       confidence |-> ScoreToConf(DefaultBlockScore),
       semanticRole |-> Undefined,
       readingOrder |-> 0 ] >>

\* the page the catch block returns for the OCR result data
FallbackPage(data, canvas, pageNumber) ==
  LET words == FallbackWords(data, canvas)
      lines == MakeLines(words)
  IN [ legacyChunks |-> FallbackChunks(data, canvas, pageNumber),
       irPage |-> [ pageNumber |-> pageNumber, width |-> canvas.width,
                    height |-> canvas.height, words |-> words, lines |-> lines,
                    blocks |-> FallbackBlocks(words, lines) ] ]

\* ------------------------------------- advanced processing disabled (plain)
\* the mean over the lines of the mean confidence of a line's words
MeanLineConfidence(blockLines) ==
  SumSeq(MapSeq(blockLines,
                LAMBDA l : SumSeq(MapSeq(l.words, LAMBDA w : w.confidence))
                             \div Len(l.words)))
    \div Len(blockLines)

PlainBlocks(lines) ==
  LET groupedBlocks == groupLinesIntoBlocks(lines)
  IN [i \in 1..Len(groupedBlocks) |->
        [ id |-> <<"block", i - 1>>,
          type |-> "paragraph",
          bbox |-> calculateBoundingBox(MapSeq(groupedBlocks[i], LAMBDA l : l.bbox)),
          lines |-> groupedBlocks[i],
          confidence |-> MeanLineConfidence(groupedBlocks[i]),
          semanticRole |-> Undefined,
          readingOrder |-> i - 1 ]]

PlainPage(data, canvas, pageNumber) ==
  LET usable == UsableOcrWords(data.words)
      words == MapSeq(usable, LAMBDA o : RawOcrWord(o, canvas))
      lines == MakeLines(words)
  IN [ legacyChunks |-> MapSeq(usable, LAMBDA o : RawOcrChunk(o, pageNumber)),
       irPage |-> [ pageNumber |-> pageNumber, width |-> canvas.width,
                    height |-> canvas.height, words |-> words, lines |-> lines,
                    blocks |-> PlainBlocks(lines) ] ]

\* ------------------------------------------------------- final text chunks
ChunkDefaultScore == 80

\* mapBlockTypeToChunkType: mapping[blockType] || 'text'
mapBlockTypeToChunkType(blockType) ==
  CASE blockType = "paragraph" -> "text"
    [] blockType = "heading" -> "title"
    [] blockType = "list" -> "list"
    [] blockType = "table" -> "table"
    [] blockType = "image" -> "figure"
    [] blockType = "line" -> "text"
    [] blockType = "footer" -> "footer"
    [] blockType = "header" -> "header"
    [] blockType = "form_field" -> "form_field"
    [] blockType = "signature" -> "figure"
    [] blockType = "logo" -> "figure"
    [] blockType = "caption" -> "caption"
    [] OTHER -> "text"

\* `confidence || 0.8`
ChunkConfidence(confidence) ==
  IF confidence = 0 THEN ScoreToConf(ChunkDefaultScore) ELSE confidence

\* the chunk with the grounding of its legacy geometry: every legacy field is
\* kept, and the box {l,t,r,b} is the geometry as edges; a normalised edge is
\* an integer number of 1/100 of the unit of the percentage it comes from
transformLegacyToGrounding(legacyChunk, pageWidth, pageHeight) ==
  [ id |-> legacyChunk.id,
    text |-> legacyChunk.text,
    pageNumber |-> legacyChunk.pageNumber,
    geometry |-> legacyChunk.geometry,
    grounding |-> [ l |-> legacyChunk.geometry.x,
                    t |-> legacyChunk.geometry.y,
                    r |-> legacyChunk.geometry.x + legacyChunk.geometry.w,
                    b |-> legacyChunk.geometry.y + legacyChunk.geometry.h ] ]

\* the block-level chunk of generateTextChunks
BlockChunk(page, block) ==
  LET legacyChunk ==
        [ id |-> block.id,
          text |-> Trim(LinesText(block.lines)),
          pageNumber |-> page.pageNumber,
          geometry |-> [ x |-> block.bbox.x * page.width, y |-> block.bbox.y * page.height,
                         w |-> block.bbox.width * page.width,
                         h |-> block.bbox.height * page.height ] ]
      transformedChunk == transformLegacyToGrounding(legacyChunk, page.width, page.height)
  IN [ level |-> "block",
       id |-> transformedChunk.id,
       text |-> transformedChunk.text,
       pageNumber |-> transformedChunk.pageNumber,
       geometry |-> transformedChunk.geometry,
       grounding |-> transformedChunk.grounding,
       chunk_type |-> mapBlockTypeToChunkType(block.type),
       confidence |-> ChunkConfidence(block.confidence),
       semantic_role |-> block.semanticRole ]

\* the word-level chunk of the wordIndex-th word of the lineIndex-th line
WordChunk(page, block, lineIndex, wordIndex) ==
  LET word == block.lines[lineIndex + 1].words[wordIndex + 1]
      wordLegacyChunk ==
        [ id |-> <<block.id, "line", lineIndex, "word", wordIndex>>,
          text |-> Trim(word.text),
          pageNumber |-> page.pageNumber,
          geometry |-> [ x |-> NormToPct(word.bbox.x), y |-> NormToPct(word.bbox.y),
                         w |-> NormToPct(word.bbox.width),
                         h |-> NormToPct(word.bbox.height) ] ]
      wordTransformedChunk ==
        transformLegacyToGrounding(wordLegacyChunk, page.width, page.height)
  IN [ level |-> "word",
       id |-> wordTransformedChunk.id,
       text |-> wordTransformedChunk.text,
       pageNumber |-> wordTransformedChunk.pageNumber,
       geometry |-> wordTransformedChunk.geometry,
       grounding |-> wordTransformedChunk.grounding,
       chunk_type |-> "text",
       confidence |-> ChunkConfidence(word.confidence),
       semantic_role |-> <<"word_in",
                           IF block.semanticRole = Undefined THEN block.type
                           ELSE block.semanticRole>> ]

\* the word-level chunks of one line: the words whose trimmed text is not empty
LineWordChunks(page, block, lineIndex) ==
  LET lineWords == block.lines[lineIndex + 1].words
      kept == SelectSeq([k \in 1..Len(lineWords) |-> k - 1],
                        LAMBDA wordIndex : NonBlank(lineWords[wordIndex + 1].text))
  IN MapSeq(kept, LAMBDA wordIndex : WordChunk(page, block, lineIndex, wordIndex))

\* the word-level chunks put before the block-level chunk
BlockChunksWordsFirst(page, block) ==
  IF NonBlank(LinesText(block.lines))
  THEN Flatten([l \in 1..Len(block.lines) |-> LineWordChunks(page, block, l - 1)])
         \o <<BlockChunk(page, block)>>
  ELSE <<>>

\* the chunks of one block: nothing for a block whose text is blank
BlockChunks(page, block) ==
  IF NonBlank(LinesText(block.lines))
  THEN <<BlockChunk(page, block)>>
         \o Flatten([l \in 1..Len(block.lines) |-> LineWordChunks(page, block, l - 1)])
  ELSE <<>>

PageChunks(page) ==
  Flatten([b \in 1..Len(page.blocks) |-> BlockChunks(page, page.blocks[b])])

generateTextChunks(pages) == Flatten([p \in 1..Len(pages) |-> PageChunks(pages[p])])

\* ------------------------------------------------ inputs of the pipeline
\* strings
sEmpty == <<>>
sBlank == <<" ">>
sA == <<"a">>
sAB == <<"a", " ", "b">>
sCD == <<"c", "d">>
sLong == <<"a", " ", "b", " ", "c", "d">>
sTitle == <<"A", " ", "b">>
sRepeat == <<"a", " ", "a", " ", "a">>
sJson == <<"{", "}">>

\* the rendered canvas (viewport at scale 2)
Canvases == { [width |-> 500, height |-> 1000] }

\* native text items: str, transform, width, height, fontName
Item(str, tx, ty) ==
  [ str |-> str, transform |-> <<12, 0, 0, 12, tx, ty>>, width |-> 30, height |-> 0,
    fontName |-> "Helvetica" ]

\* what pdfPage.getTextContent() gives: it throws, or the list of items
Items(items) == [kind |-> "items", items |-> items]
TextContents ==
  { [kind |-> "throw"], Items(<<>>), Items(<<Item(sBlank, 50, 900)>>),
    Items(<<Item(sBlank, 50, 900), Item(sA, 60, 900)>>) }

\* OCR words and lines: text, pixel box, engine score
OWord(text, x0, y0, x1, y1, score) ==
  [ text |-> text, bbox |-> [x0 |-> x0, y0 |-> y0, x1 |-> x1, y1 |-> y1],
    confidence |-> score ]
OBoxless(text, score) == [text |-> text, bbox |-> NoBox, confidence |-> score]

lineAB == OWord(sAB, 50, 100, 250, 130, 70)

dNone == [words |-> <<>>, lines |-> <<>>, text |-> sEmpty]
dText == [words |-> <<>>, lines |-> <<>>, text |-> sAB]
dLines == [words |-> <<>>, lines |-> <<lineAB>>, text |-> sAB]
dBlank == [words |-> <<OWord(sBlank, 50, 100, 60, 130, 30)>>, lines |-> <<lineAB>>,
           text |-> sAB]
dMixed == [words |-> <<OWord(sBlank, 10, 100, 20, 130, 30), OBoxless(sCD, 80),
                       OWord(sA, 50, 100, 100, 130, 90)>>,
           lines |-> <<>>, text |-> sA]
dThree == [words |-> <<OWord(<<"c">>, 50, 500, 100, 530, 50),
                       OWord(<<"b">>, 120, 105, 170, 135, 60),
                       OWord(sA, 50, 100, 100, 130, 90)>>,
           lines |-> <<lineAB>>, text |-> <<"a", " ", "b", " ", "c">>]

\* what one recognition attempt gives: setParameters throws, recognize
\* throws, or recognize returns data
OcrResults == {dNone, dText, dLines, dBlank, dMixed, dThree}
OcrOutcomes ==
  {[kind |-> "throwSetParameters"], [kind |-> "throwRecognize"]}
    \cup {[kind |-> "data", data |-> d] : d \in OcrResults}

\* responses of the text-extraction call
GeminiError(status) == [kind |-> "error", status |-> status]
GeminiResponses ==
  { GeminiError(503), GeminiError(400), GeminiError(NoStatus),
    [kind |-> "json", text |-> sJson, parsedText |-> sA, parsedScore |-> 98],
    [kind |-> "json", text |-> sJson, parsedText |-> sLong, parsedScore |-> 0],
    [kind |-> "raw", text |-> sEmpty] }

\* responses of the structure-analysis call
Element(type, content, score) ==
  [type |-> type, content |-> content, confidence |-> ScoreToConf(score)]
StructureResponses ==
  { [kind |-> "error", status |-> 503],
    [kind |-> "raw", text |-> sEmpty],
    [kind |-> "json", text |-> sJson, completeText |-> sEmpty,
     hasElements |-> FALSE, elements |-> <<>>],
    [kind |-> "json", text |-> sJson, completeText |-> sA, hasElements |-> TRUE,
     elements |-> <<Element("paragraph", sA, 90)>>],
    [kind |-> "json", text |-> sJson, completeText |-> sLong, hasElements |-> TRUE,
     elements |-> <<Element("Title", sTitle, 90), Element("list", sCD, 60)>>],
    [kind |-> "json", text |-> sJson, completeText |-> sRepeat, hasElements |-> TRUE,
     elements |-> <<Element("footer", sA, 40)>>] }

\* the third argument of performGeminiExtraction: FALSE is the call of
\* performEnhancedOCR, which omits it; TRUE is a call that passes the page
PdfPageArgs == {FALSE, TRUE}

\* the numbers of pages of the documents loaded
PageCounts == {1}

\* ---------------------------------------- inputs of a document of several pages
\* the largest number of pages of a document
MaxPages == 3
DocPageCounts == 1..MaxPages

\* per page: the text layer, the recognition outcomes and the responses of
\* the two vision-model calls
DocTextContents == { Items(<<>>) }
DocOcrOutcomes ==
  { [kind |-> "throwRecognize"], [kind |-> "data", data |-> dNone],
    [kind |-> "data", data |-> dThree] }
DocGeminiResponses ==
  { GeminiError(503), [kind |-> "json", text |-> sJson, parsedText |-> sA, parsedScore |-> 98] }
DocStructureResponses ==
  { [kind |-> "json", text |-> sJson, completeText |-> sA, hasElements |-> TRUE,
     elements |-> <<Element("paragraph", sA, 90)>>],
    [kind |-> "json", text |-> sJson, completeText |-> sLong, hasElements |-> TRUE,
     elements |-> <<Element("list", <<" ", "c", "d">>, 60)>>],
    [kind |-> "json", text |-> sJson, completeText |-> sAB, hasElements |-> TRUE,
     elements |-> <<Element("Title", sTitle, 90), Element("paragraph", sA, 80),
                    Element("list", sAB, 60)>>] }

\* ------------------------------------------------- inputs of the grouping
\* the largest number of Words handed to groupWordsIntoLines
MaxWords == 3

\* a Word with its top-left corner at (x, y) in normalised coordinates
GWord(x, y) ==
  MakeWord(<<"w">>, BBox(x, y, 100000, 20000), ScoreToConf(90), "Arial", 12 * FontUnit)

\* a Word three times as high, as a larger font gives
GTallWord(x, y) ==
  MakeWord(<<"W">>, BBox(x, y, 150000, 60000), ScoreToConf(90), "Arial", 36 * FontUnit)

GroupWords ==
  { GWord(x, y) : x \in {100000, 300000}, y \in {100000, 109000, 125000, 160000, 200000} }
    \cup { GTallWord(100000, y) : y \in {109000, 125000} }

\* the arrays of at most MaxWords Words, the empty array included
WordArrays == UNION { [1..n -> GroupWords] : n \in 0..MaxWords }

\* --------------------------------------------- inputs of the line synthesis
\* the scores the engine may report for a line
LineScores == 0..100

\* an OCR result whose only word is blank and whose line "a b" has the score
ScoredLineData(score) ==
  [ words |-> <<OWord(sBlank, 50, 100, 60, 130, 30)>>,
    lines |-> <<OWord(sAB, 50, 100, 250, 130, score)>>,
    text |-> sAB ]

\* ----------------------------------------------- inputs of the text flow
\* the largest number of tokens of the texts built from FlowTokens
MaxFlowWords == 3

\* a token of n characters
FlowToken(n) == [i \in 1..n |-> "a"]

\* tokens of 1, 7, 43 and 85 characters
FlowTokens == { FlowToken(n) : n \in {1, 7, 43, 85} }

\* the text of n tokens of one character separated by a space
FlowRun(n) == [i \in 1..(2 * n - 1) |-> IF i % 2 = 1 THEN "a" ELSE " "]

\* the vision-model texts: up to MaxFlowWords tokens separated by a space,
\* and a text that fills more than one line of 12 tokens
FlowTexts ==
  { Join(ts, <<" ">>) : ts \in UNION { [1..n -> FlowTokens] : n \in 0..MaxFlowWords } }
    \cup { FlowRun(13) }

\* ------------------------------------------------------------------ state
VARIABLES
  enableAdvancedProcessing, \* the prop of the component
  numPages,                 \* useState numPages
  currentProcessingPage,    \* useState currentProcessingPage
  allPages,                 \* useState allPages (LegacyPageData[])
  irPages,                  \* useState irPages (IRPage[])
  progress,                 \* the values passed to onProgressUpdate, <<num, den>>
  errors,                   \* the messages passed to onError
  completions,              \* the arguments of the calls of onProcessingComplete, each
                            \* with the progress values reported before the call
  pc,                       \* where the document / page pipeline stands
  path,                     \* "primary", "fallback" (catch block) or "plain"
  nativeLayer,              \* what getTextContent() of the loaded page gives
  pdfPage,                  \* performGeminiExtraction was given the page handle
  canvas,                   \* the rendered canvas of the page
  geminiResult,             \* result of extractTextWithGemini
  structureResult,          \* result of analyzeDocumentStructure
  pdfTextItems,             \* the native text items read in STEP 1
  ocrData,                  \* the accepted OCR result of the primary path
  configIndex,              \* position of the loop over ocrConfigs
  ocrOutcomes,              \* what each attempt of the page gave, in order
  ocrCalls,                 \* parameters in force at each worker.recognize call
  visionCalls,              \* the vision-model calls of the page, in order
  ladder,                   \* stage, words, legacyChunks after STEP 5 (placeholder)
  caught,                   \* the error caught by the catch block, if any
  workers,                  \* OCR workers created / terminated for the page
  pageResult,               \* what performEnhancedOCR returned
  inputWords,               \* the Word array handed to groupWordsIntoLines
  grouping,                 \* the Lines and Blocks grouped from inputWords
  flowText,                 \* a vision-model text handed to the text-flow stage
  flowWords,                \* the Words the text-flow stage made of flowText
  lineScore,                \* the confidence an OCR line was reported with
  lineWords                 \* the Words synthesised from that line

docVars == <<enableAdvancedProcessing, numPages, currentProcessingPage, allPages, irPages,
             progress, errors, completions>>
pageVars == <<path, nativeLayer, pdfPage, canvas, geminiResult, structureResult,
              pdfTextItems, ocrData, configIndex, ocrOutcomes, ocrCalls, visionCalls,
              ladder, caught, workers, pageResult>>
groupVars == <<inputWords, grouping, flowText, flowWords, lineScore, lineWords>>
vars == <<docVars, pc, pageVars, groupVars>>

None == [kind |-> "none"]
NoCanvas == [width |-> 0, height |-> 0]

\* the locals of a page pipeline before it starts
FreshPage ==
  /\ path = "none"
  /\ nativeLayer = None
  /\ pdfPage = FALSE
  /\ canvas = NoCanvas
  /\ geminiResult = None
  /\ structureResult = None
  /\ pdfTextItems = <<>>
  /\ ocrData = NoData
  /\ configIndex = 0
  /\ ocrOutcomes = <<>>
  /\ ocrCalls = <<>>
  /\ visionCalls = <<>>
  /\ ladder = None
  /\ caught = None
  /\ workers = [created |-> 0, terminated |-> 0]
  /\ pageResult = None

\* the locals of the next page's pipeline: those of a fresh call
ResetPage ==
  /\ path' = "none"
  /\ nativeLayer' = None
  /\ pdfPage' = FALSE
  /\ canvas' = NoCanvas
  /\ geminiResult' = None
  /\ structureResult' = None
  /\ pdfTextItems' = <<>>
  /\ ocrData' = NoData
  /\ configIndex' = 0
  /\ ocrOutcomes' = <<>>
  /\ ocrCalls' = <<>>
  /\ visionCalls' = <<>>
  /\ ladder' = None
  /\ caught' = None
  /\ workers' = [created |-> 0, terminated |-> 0]
  /\ pageResult' = None

Init ==
  /\ enableAdvancedProcessing \in BOOLEAN
  /\ numPages = 0
  /\ currentProcessingPage = 0
  /\ allPages = <<>>
  /\ irPages = <<>>
  /\ progress = <<>>
  /\ errors = <<>>
  /\ completions = <<>>
  /\ pc = "idle"
  /\ FreshPage
  /\ inputWords = <<>>
  /\ flowText = <<>>
  /\ flowWords = None
  /\ lineScore = 0
  /\ lineWords = None
  /\ grouping = None

\* a progress base that counts the page itself among the finished pages
PageProgressFromPage(pageNum, k) ==
  <<60 * numPages + 80 * (6 * pageNum + k), 6 * numPages>>

\* a progress base of 20 in place of 10
PageProgressFrom20(pageNum, k) ==
  <<120 * numPages + 80 * (6 * (pageNum - 1) + k), 6 * numPages>>

\* progressBase + pageProgressStep * k, as the fraction <<num, den>>:
\* ((pageNum - 1) / numPages) * 80 + 10 + (80 / numPages / 6) * k
PageProgress(pageNum, k) ==
  <<60 * numPages + 80 * (6 * (pageNum - 1) + k), 6 * numPages>>

\* a message that always names the first page
ProcessErrorFirstPage(message) == <<"Failed to process page", 1, message>>

\* the catch of onPageLoadSuccess
ProcessError(message) == <<"Failed to process page", currentProcessingPage, message>>

WorkerCreated == [workers EXCEPT !.created = @ + 1]

\* a finally that leaves the worker running
WorkerKept == workers

WorkerTerminated == [workers EXCEPT !.terminated = @ + 1]

\* a step to the page after the next
NextPageSkipping(pageNum) == pageNum + 2

\* setCurrentProcessingPage(pageNum + 1)
NextPage(pageNum) == pageNum + 1

\* the new page put in front of the list, without the sort
InsertPageFirst(ps, page) == <<page>> \o ps

\* [...prev, page].sort((a, b) => a.pageNumber - b.pageNumber)
RECURSIVE InsertPage(_, _)
InsertPage(ps, page) ==
  IF ps = <<>> THEN <<page>>
  ELSE IF ps[Len(ps)].pageNumber > page.pageNumber
       THEN InsertPage(SubSeq(ps, 1, Len(ps) - 1), page) \o <<ps[Len(ps)]>>
       ELSE ps \o <<page>>

\* one recognition attempt of the page: the path it was made on, the
\* position of its configuration in ocrConfigs (0 outside the loop), and
\* what it gave
Attempt(onPath, index, outcome) == [path |-> onPath, config |-> index, outcome |-> outcome]

\* the acceptance test asking for more than one word
OcrAcceptsSeveral(data) == Len(data.words) > 1

\* the test of the OCR loop that accepts a result and breaks
OcrAccepts(data) == Len(data.words) > 0

\* ---------------------------------------------------------------- actions
onDocumentLoadSuccess(n) ==
  /\ UNCHANGED groupVars
  /\ pc = "idle"
  /\ numPages' = n
  /\ currentProcessingPage' = 1
  /\ allPages' = <<>>
  /\ irPages' = <<>>
  /\ progress' = Append(progress, <<10, 1>>)
  /\ pc' = "pageLoading"
  /\ UNCHANGED <<enableAdvancedProcessing, errors, completions, pageVars>>

onDocumentLoadError ==
  /\ UNCHANGED groupVars
  /\ pc = "idle"
  /\ errors' = Append(errors, <<"Failed to load PDF document", 0, "">>)
  /\ pc' = "halted"
  /\ UNCHANGED <<enableAdvancedProcessing, numPages, currentProcessingPage, allPages,
                 irPages, progress, completions, pageVars>>

\* a page-load failure that is only logged
onPageLoadErrorSilent ==
  /\ UNCHANGED groupVars
  /\ pc = "pageLoading"
  /\ pc' = "halted"
  /\ UNCHANGED <<docVars, pageVars>>

\* onLoadError of the Page component
onPageLoadError ==
  /\ UNCHANGED groupVars
  /\ pc = "pageLoading"
  /\ errors' = Append(errors, <<"Failed to load page", currentProcessingPage, "">>)
  /\ pc' = "halted"
  /\ UNCHANGED <<enableAdvancedProcessing, numPages, currentProcessingPage, allPages,
                 irPages, progress, completions, pageVars>>

\* onPageLoadSuccess up to `await page.render(...)`
onPageLoadSuccess(layer, cv, hasContext) ==
  /\ UNCHANGED groupVars
  /\ pc = "pageLoading"
  /\ nativeLayer' = layer
  /\ IF hasContext
     THEN /\ progress' = progress \o <<PageProgress(currentProcessingPage, 1),
                                       PageProgress(currentProcessingPage, 2)>>
          /\ canvas' = cv
          /\ pc' = "render"
          /\ UNCHANGED errors
     ELSE /\ progress' = Append(progress, PageProgress(currentProcessingPage, 1))
          /\ errors' = Append(errors, ProcessError("Failed to get canvas context"))
          /\ pc' = "halted"
          /\ UNCHANGED canvas
  /\ UNCHANGED <<enableAdvancedProcessing, numPages, currentProcessingPage, allPages,
                 irPages, completions, path, pdfPage, geminiResult, structureResult,
                 pdfTextItems, ocrData, configIndex, ocrOutcomes, ocrCalls, visionCalls,
                 ladder, caught, workers, pageResult>>

\* the render resolves or rejects; then performEnhancedOCR runs up to its
\* first await: the text-extraction call, or createWorker of the plain path
renderDone(ok, pass) ==
  /\ UNCHANGED groupVars
  /\ pc = "render"
  /\ IF ~ok
     THEN /\ errors' = Append(errors, ProcessError("render"))
          /\ pc' = "halted"
          /\ UNCHANGED <<progress, path, pdfPage, workers>>
     ELSE /\ progress' = progress \o <<PageProgress(currentProcessingPage, 3),
                                       PageProgress(currentProcessingPage, 4)>>
          /\ UNCHANGED errors
          /\ IF enableAdvancedProcessing
             THEN /\ path' = "primary"
                  /\ pdfPage' = pass
                  /\ pc' = "gemini"
                  /\ UNCHANGED workers
             ELSE /\ path' = "plain"
                  /\ workers' = WorkerCreated
                  /\ pc' = "plainOcr"
                  /\ UNCHANGED pdfPage
  /\ UNCHANGED <<enableAdvancedProcessing, numPages, currentProcessingPage, allPages,
                 irPages, completions, nativeLayer, canvas, geminiResult, structureResult,
                 pdfTextItems, ocrData, configIndex, ocrOutcomes, ocrCalls, visionCalls,
                 ladder, caught, pageResult>>

\* a text extraction after which the worker is created at once, before the
\* structure analysis is awaited
extractTextCreatingWorker(resp) ==
  /\ UNCHANGED groupVars
  /\ pc = "gemini"
  /\ visionCalls' = Append(visionCalls, "extractTextWithGemini")
  /\ workers' = WorkerCreated
  /\ IF resp.kind = "error"
     THEN /\ caught' = CatchError(ExtractTextError(resp))
          /\ path' = "fallback"
          /\ pc' = "fallbackOcr"
          /\ UNCHANGED geminiResult
     ELSE /\ geminiResult' = ExtractText(resp)
          /\ pc' = "structure"
          /\ UNCHANGED <<caught, path>>
  /\ UNCHANGED <<docVars, nativeLayer, pdfPage, canvas, structureResult, pdfTextItems,
                 ocrData, configIndex, ocrOutcomes, ocrCalls, ladder, pageResult>>

\* `await extractTextWithGemini(...)`: on an error the catch block of
\* performGeminiExtraction runs up to `await createWorker`
extractTextWithGemini(resp) ==
  /\ UNCHANGED groupVars
  /\ pc = "gemini"
  /\ visionCalls' = Append(visionCalls, "extractTextWithGemini")
  /\ IF resp.kind = "error"
     THEN /\ caught' = CatchError(ExtractTextError(resp))
          /\ path' = "fallback"
          /\ workers' = WorkerCreated
          /\ pc' = "fallbackOcr"
          /\ UNCHANGED geminiResult
     ELSE /\ geminiResult' = ExtractText(resp)
          /\ pc' = "structure"
          /\ UNCHANGED <<caught, path, workers>>
  /\ UNCHANGED <<docVars, nativeLayer, pdfPage, canvas, structureResult, pdfTextItems,
                 ocrData, configIndex, ocrOutcomes, ocrCalls, ladder, pageResult>>

\* a structure analysis whose remote failure reaches the catch block of
\* performGeminiExtraction
analyzeStructurePropagating(resp) ==
  /\ UNCHANGED groupVars
  /\ pc = "structure"
  /\ visionCalls' = Append(visionCalls, "analyzeDocumentStructure")
  /\ IF resp.kind = "error"
     THEN /\ caught' = CatchError([status |-> resp.status, message |-> "analysis failed"])
          /\ path' = "fallback"
          /\ workers' = WorkerCreated
          /\ pc' = "fallbackOcr"
          /\ UNCHANGED <<structureResult, configIndex>>
     ELSE /\ structureResult' = analyzeDocumentStructure(resp, geminiResult.text)
          /\ UNCHANGED <<caught, path>>
          /\ IF pdfPage
             THEN /\ pc' = "textContent"
                  /\ UNCHANGED <<workers, configIndex>>
             ELSE /\ workers' = WorkerCreated
                  /\ configIndex' = 1
                  /\ pc' = "ocr"
  /\ UNCHANGED <<docVars, nativeLayer, pdfPage, canvas, geminiResult, pdfTextItems,
                 ocrData, ocrOutcomes, ocrCalls, ladder, pageResult>>

\* `await analyzeDocumentStructure(...)`, then STEP 1 up to getTextContent
\* or, without a page handle, STEP 2 up to the first recognition
analyzeStructure(resp) ==
  /\ UNCHANGED groupVars
  /\ pc = "structure"
  /\ visionCalls' = Append(visionCalls, "analyzeDocumentStructure")
  /\ structureResult' = analyzeDocumentStructure(resp, geminiResult.text)
  /\ IF pdfPage
     THEN /\ pc' = "textContent"
          /\ UNCHANGED <<workers, configIndex>>
     ELSE /\ workers' = WorkerCreated
          /\ configIndex' = 1
          /\ pc' = "ocr"
  /\ UNCHANGED <<docVars, path, nativeLayer, pdfPage, canvas, geminiResult, pdfTextItems,
                 ocrData, ocrOutcomes, ocrCalls, ladder, caught, pageResult>>

\* `await pdfPage.getTextContent()`; a failure is caught and leaves no items
getTextContent ==
  /\ UNCHANGED groupVars
  /\ pc = "textContent"
  /\ pdfTextItems' = IF nativeLayer.kind = "items" THEN nativeLayer.items ELSE <<>>
  /\ workers' = WorkerCreated
  /\ configIndex' = 1
  /\ pc' = "ocr"
  /\ UNCHANGED <<docVars, path, nativeLayer, pdfPage, canvas, geminiResult,
                 structureResult, ocrData, ocrOutcomes, ocrCalls, visionCalls, ladder,
                 caught, pageResult>>

\* one turn of the loop over ocrConfigs: setParameters, recognize, the test
tryOcrConfig(outcome) ==
  /\ UNCHANGED groupVars
  /\ pc = "ocr"
  /\ ocrOutcomes' = Append(ocrOutcomes, Attempt("primary", configIndex, outcome))
  /\ ocrCalls' = IF outcome.kind = "throwSetParameters" THEN ocrCalls
                 ELSE Append(ocrCalls, PrimaryParams(OcrConfigs[configIndex]))
  /\ IF outcome.kind = "data" /\ OcrAccepts(outcome.data)
     THEN /\ ocrData' = outcome.data
          /\ pc' = "reconcile"
          /\ UNCHANGED configIndex
     ELSE /\ UNCHANGED ocrData
          /\ IF configIndex = Len(OcrConfigs)
             THEN pc' = "reconcile" /\ UNCHANGED configIndex
             ELSE pc' = "ocr" /\ configIndex' = configIndex + 1
  /\ UNCHANGED <<docVars, path, nativeLayer, pdfPage, canvas, geminiResult,
                 structureResult, pdfTextItems, visionCalls, ladder, caught, workers,
                 pageResult>>

\* `worker.terminate()` of the finally, then STEP 3 to the return of the
\* primary path; a throw enters the catch block up to `await createWorker`
reconcile ==
  /\ UNCHANGED groupVars
  /\ pc = "reconcile"
  /\ IF NativeStageThrows(pdfTextItems)
     THEN /\ caught' = CatchError([status |-> NoStatus, message |-> "ReferenceError"])
          /\ path' = "fallback"
          /\ workers' = [created |-> workers.created + 1,
                         terminated |-> workers.terminated + 1]
          /\ pc' = "fallbackOcr"
          /\ UNCHANGED <<pageResult, ladder>>
     ELSE /\ pageResult' = PrimaryPage(pdfTextItems, ocrData, geminiResult,
                                       structureResult, canvas, currentProcessingPage)
          /\ ladder' = Ladder(pdfTextItems, ocrData, geminiResult, canvas,
                              currentProcessingPage)
          /\ workers' = WorkerTerminated
          /\ pc' = "assemble"
          /\ UNCHANGED <<caught, path>>
  /\ UNCHANGED <<docVars, nativeLayer, pdfPage, canvas, geminiResult, structureResult,
                 pdfTextItems, ocrData, configIndex, ocrOutcomes, ocrCalls, visionCalls>>

\* a catch block that recognises again when a result holds no word
fallbackOcrRetrying(outcome) ==
  /\ UNCHANGED groupVars
  /\ pc = "fallbackOcr"
  /\ ocrOutcomes' = Append(ocrOutcomes, Attempt("fallback", 0, outcome))
  /\ ocrCalls' = IF outcome.kind = "throwSetParameters" THEN ocrCalls
                 ELSE Append(ocrCalls, FallbackParams)
  /\ IF outcome.kind = "data" /\ Len(outcome.data.words) = 0 /\ Len(ocrOutcomes) < 2
     THEN /\ pc' = "fallbackOcr"
          /\ UNCHANGED <<workers, pageResult, errors>>
     ELSE /\ workers' = WorkerTerminated
          /\ IF outcome.kind = "data"
             THEN /\ pageResult' = FallbackPage(outcome.data, canvas, currentProcessingPage)
                  /\ pc' = "assemble"
                  /\ UNCHANGED errors
             ELSE /\ errors' = Append(errors, ProcessError(outcome.kind))
                  /\ pc' = "halted"
                  /\ UNCHANGED pageResult
  /\ UNCHANGED <<enableAdvancedProcessing, numPages, currentProcessingPage, allPages,
                 irPages, progress, completions, path, nativeLayer, pdfPage, canvas,
                 geminiResult, structureResult, pdfTextItems, ocrData, configIndex,
                 visionCalls, ladder, caught>>

\* the catch block: one setParameters, one recognize, the page; a throw of
\* the engine leaves through the finally to the catch of onPageLoadSuccess
fallbackOcr(outcome) ==
  /\ UNCHANGED groupVars
  /\ pc = "fallbackOcr"
  /\ ocrOutcomes' = Append(ocrOutcomes, Attempt("fallback", 0, outcome))
  /\ ocrCalls' = IF outcome.kind = "throwSetParameters" THEN ocrCalls
                 ELSE Append(ocrCalls, FallbackParams)
  /\ workers' = WorkerTerminated
  /\ IF outcome.kind = "data"
     THEN /\ pageResult' = FallbackPage(outcome.data, canvas, currentProcessingPage)
          /\ pc' = "assemble"
          /\ UNCHANGED errors
     ELSE /\ errors' = Append(errors, ProcessError(outcome.kind))
          /\ pc' = "halted"
          /\ UNCHANGED pageResult
  /\ UNCHANGED <<enableAdvancedProcessing, numPages, currentProcessingPage, allPages,
                 irPages, progress, completions, path, nativeLayer, pdfPage, canvas,
                 geminiResult, structureResult, pdfTextItems, ocrData, configIndex,
                 visionCalls, ladder, caught>>

\* performEnhancedOCR with advanced processing disabled
plainOcr(outcome) ==
  /\ UNCHANGED groupVars
  /\ pc = "plainOcr"
  /\ ocrOutcomes' = Append(ocrOutcomes, Attempt("plain", 0, outcome))
  /\ ocrCalls' = IF outcome.kind = "throwSetParameters" THEN ocrCalls
                 ELSE Append(ocrCalls, PlainParams)
  /\ workers' = WorkerTerminated
  /\ IF outcome.kind = "data"
     THEN /\ pageResult' = PlainPage(outcome.data, canvas, currentProcessingPage)
          /\ pc' = "assemble"
          /\ UNCHANGED errors
     ELSE /\ errors' = Append(errors, ProcessError(outcome.kind))
          /\ pc' = "halted"
          /\ UNCHANGED pageResult
  /\ UNCHANGED <<enableAdvancedProcessing, numPages, currentProcessingPage, allPages,
                 irPages, progress, completions, path, nativeLayer, pdfPage, canvas,
                 geminiResult, structureResult, pdfTextItems, ocrData, configIndex,
                 visionCalls, ladder, caught>>

\* a page pipeline that reports the completion after every page
pageDoneCompletingEach ==
  /\ UNCHANGED groupVars
  /\ pc = "assemble"
  /\ LET pageNum == currentProcessingPage
         pageData == [pageNumber |-> pageNum, textChunks |-> pageResult.legacyChunks]
         finalPages == InsertPage(allPages, pageData)
         finalIRPages == InsertPage(irPages, pageResult.irPage)
     IN /\ allPages' = finalPages
        /\ irPages' = finalIRPages
        /\ completions' = Append(completions,
              [ pages |-> finalPages,
                irPages |-> finalIRPages,
                chunks |-> generateTextChunks(finalIRPages),
                reported |-> progress \o <<PageProgress(pageNum, 5),
                                            PageProgress(pageNum, 6)>> ])
        /\ IF pageNum = numPages
           THEN /\ progress' = progress \o <<PageProgress(pageNum, 5),
                                             PageProgress(pageNum, 6), <<100, 1>>>>
                /\ pc' = "done"
                /\ UNCHANGED <<currentProcessingPage, pageVars>>
           ELSE /\ progress' = progress \o <<PageProgress(pageNum, 5),
                                             PageProgress(pageNum, 6)>>
                /\ currentProcessingPage' = NextPage(pageNum)
                /\ pc' = "pageLoading"
                /\ ResetPage
  /\ UNCHANGED <<enableAdvancedProcessing, numPages, errors>>

\* onPageLoadSuccess after performEnhancedOCR returned
pageDone ==
  /\ UNCHANGED groupVars
  /\ pc = "assemble"
  /\ LET pageNum == currentProcessingPage
         pageData == [pageNumber |-> pageNum, textChunks |-> pageResult.legacyChunks]
         finalPages == InsertPage(allPages, pageData)
         finalIRPages == InsertPage(irPages, pageResult.irPage)
     IN /\ allPages' = finalPages
        /\ irPages' = finalIRPages
        /\ IF pageNum = numPages
           THEN /\ completions' = Append(completions,
                    [ pages |-> finalPages,
                      irPages |-> finalIRPages,
                      chunks |-> generateTextChunks(finalIRPages),
                      reported |-> progress \o <<PageProgress(pageNum, 5),
                                                  PageProgress(pageNum, 6)>> ])
                /\ progress' = progress \o <<PageProgress(pageNum, 5),
                                             PageProgress(pageNum, 6), <<100, 1>>>>
                /\ pc' = "done"
                /\ UNCHANGED <<currentProcessingPage, pageVars>>
           ELSE /\ progress' = progress \o <<PageProgress(pageNum, 5),
                                             PageProgress(pageNum, 6)>>
                /\ currentProcessingPage' = NextPage(pageNum)
                /\ pc' = "pageLoading"
                /\ ResetPage
                /\ UNCHANGED completions
  /\ UNCHANGED <<enableAdvancedProcessing, numPages, errors>>

Next ==
  \/ \E n \in PageCounts : onDocumentLoadSuccess(n)
  \/ onDocumentLoadError
  \/ onPageLoadError
  \/ \E layer \in TextContents, cv \in Canvases, hasContext \in BOOLEAN :
       onPageLoadSuccess(layer, cv, hasContext)
  \/ \E ok \in BOOLEAN, pass \in PdfPageArgs : renderDone(ok, pass)
  \/ \E resp \in GeminiResponses : extractTextWithGemini(resp)
  \/ \E resp \in StructureResponses : analyzeStructure(resp)
  \/ getTextContent
  \/ \E outcome \in OcrOutcomes : tryOcrConfig(outcome)
  \/ reconcile
  \/ \E outcome \in OcrOutcomes : fallbackOcr(outcome)
  \/ \E outcome \in OcrOutcomes : plainOcr(outcome)
  \/ pageDone

Spec == Init /\ [][Next]_vars

\* ------------------------------------------------ documents of several pages
\* the component as it runs: performEnhancedOCR never hands the page to
\* performGeminiExtraction, so the text layer is not read
DocNext ==
  \/ \E n \in DocPageCounts : onDocumentLoadSuccess(n)
  \/ onDocumentLoadError
  \/ onPageLoadError
  \/ \E layer \in DocTextContents, cv \in Canvases, hasContext \in BOOLEAN :
       onPageLoadSuccess(layer, cv, hasContext)
  \/ \E ok \in BOOLEAN : renderDone(ok, FALSE)
  \/ \E resp \in DocGeminiResponses : extractTextWithGemini(resp)
  \/ \E resp \in DocStructureResponses : analyzeStructure(resp)
  \/ \E outcome \in DocOcrOutcomes : tryOcrConfig(outcome)
  \/ reconcile
  \/ \E outcome \in DocOcrOutcomes : fallbackOcr(outcome)
  \/ \E outcome \in DocOcrOutcomes : plainOcr(outcome)
  \/ pageDone

DocSpec == Init /\ [][DocNext]_vars

\* the steps that wait for a collaborator: document load, page load, render,
\* the two vision-model calls and the recognitions
DocReturns ==
  \/ \E n \in DocPageCounts : onDocumentLoadSuccess(n)
  \/ onDocumentLoadError
  \/ onPageLoadError
  \/ \E layer \in DocTextContents, cv \in Canvases, hasContext \in BOOLEAN :
       onPageLoadSuccess(layer, cv, hasContext)
  \/ \E ok \in BOOLEAN : renderDone(ok, FALSE)
  \/ \E resp \in DocGeminiResponses : extractTextWithGemini(resp)
  \/ \E resp \in DocStructureResponses : analyzeStructure(resp)
  \/ \E outcome \in DocOcrOutcomes : tryOcrConfig(outcome)
  \/ \E outcome \in DocOcrOutcomes : fallbackOcr(outcome)
  \/ \E outcome \in DocOcrOutcomes : plainOcr(outcome)

\* every pending collaborator call eventually returns or throws, and the
\* code that follows worker.terminate() and the return of performEnhancedOCR
\* runs: the pipeline stays neither before reconcile nor before pageDone
DocLiveSpec ==
  /\ Init /\ [][DocNext]_vars
  /\ WF_vars(DocReturns)
  /\ []<>(pc # "reconcile")
  /\ []<>(pc # "assemble")

\* ------------------------------------------------------------ the grouping
\* the arrays of Words handed to the grouping
GroupInit ==
  /\ enableAdvancedProcessing = FALSE
  /\ numPages = 0
  /\ currentProcessingPage = 0
  /\ allPages = <<>>
  /\ irPages = <<>>
  /\ progress = <<>>
  /\ errors = <<>>
  /\ completions = <<>>
  /\ pc = "idle"
  /\ FreshPage
  /\ inputWords \in WordArrays
  /\ grouping = None
  /\ flowText = <<>>
  /\ flowWords = None
  /\ lineScore = 0
  /\ lineWords = None

\* groupWordsIntoLines, the Line objects, groupLinesIntoBlocks
\* calculateBoundingBox(words.map(w => w.bbox)), the box of all the Words
WordsBox(ws) == calculateBoundingBox(MapSeq(ws, LAMBDA w : w.bbox))

GroupOf(ws) ==
  LET lines == MakeLines(ws)
  IN [kind |-> "grouped", lines |-> lines, blocks |-> groupLinesIntoBlocks(lines),
      bbox |-> WordsBox(ws)]

groupWords ==
  /\ grouping = None
  /\ grouping' = GroupOf(inputWords)
  /\ UNCHANGED <<docVars, pc, pageVars, inputWords, flowText, flowWords, lineScore,
                 lineWords>>

GroupNext == groupWords

GroupSpec == GroupInit /\ [][GroupNext]_vars

\* ------------------------------------------------------------ the text flow
\* a page without native item and without OCR result, whose vision-model
\* text is flowText
FlowInit ==
  /\ enableAdvancedProcessing = TRUE
  /\ numPages = 0
  /\ currentProcessingPage = 0
  /\ allPages = <<>>
  /\ irPages = <<>>
  /\ progress = <<>>
  /\ errors = <<>>
  /\ completions = <<>>
  /\ pc = "idle"
  /\ FreshPage
  /\ inputWords = <<>>
  /\ grouping = None
  /\ flowText \in FlowTexts
  /\ flowWords = None
  /\ lineScore = 0
  /\ lineWords = None

\* STEP 4 of the primary path for that page
flowTextWords ==
  /\ flowWords = None
  /\ flowWords' = [ kind |-> "words",
                    words |-> LadderWords(<<>>, NoData,
                                          [text |-> flowText, confidence |-> ScoreToConf(95)],
                                          NoCanvas) ]
  /\ UNCHANGED <<docVars, pc, pageVars, inputWords, grouping, flowText, lineScore,
                 lineWords>>

FlowNext == flowTextWords

FlowSpec == FlowInit /\ [][FlowNext]_vars

\* ------------------------------------------------------ the line synthesis
\* a page without native item whose accepted OCR result holds no usable
\* word and one line reported with lineScore
LineInit ==
  /\ enableAdvancedProcessing = TRUE
  /\ numPages = 0
  /\ currentProcessingPage = 0
  /\ allPages = <<>>
  /\ irPages = <<>>
  /\ progress = <<>>
  /\ errors = <<>>
  /\ completions = <<>>
  /\ pc = "idle"
  /\ FreshPage
  /\ inputWords = <<>>
  /\ grouping = None
  /\ flowText = <<>>
  /\ flowWords = None
  /\ lineScore \in LineScores
  /\ lineWords = None

\* STEP 3 and STEP 4 of the primary path for that page
synthesiseLineWords ==
  /\ lineWords = None
  /\ \E cv \in Canvases :
       lineWords' = [ kind |-> "words",
                      stage |-> LadderStage(<<>>, ScoredLineData(lineScore),
                                            [text |-> sA, confidence |-> ScoreToConf(95)], cv),
                      words |-> LadderWords(<<>>, ScoredLineData(lineScore),
                                            [text |-> sA, confidence |-> ScoreToConf(95)], cv) ]
  /\ UNCHANGED <<docVars, pc, pageVars, inputWords, grouping, flowText, flowWords,
                 lineScore>>

LineNext == synthesiseLineWords

LineSpec == LineInit /\ [][LineNext]_vars

\* ------------------------------------------------- the types of the elements
\* the type strings of the structural elements: the types the prompt asks
\* for, in several spellings, and strings it does not name
ElementTypes ==
  { "paragraph", "title", "Title", "header", "HEADER", "table", "Table", "list",
    "footer", "FOOTER", "image", "heading", "caption", "form_field", "sidebar", "" }

\* responses of the structure-analysis call: the call fails, the response
\* holds no JSON, or it holds one element of each type, its content among
\* the recognised words or missing from them
TypedStructureResponses ==
  { [kind |-> "error", status |-> 503], [kind |-> "raw", text |-> sEmpty] }
    \cup { [kind |-> "json", text |-> sJson, completeText |-> sLong, hasElements |-> TRUE,
            elements |-> <<Element(t, content, 60)>>] :
              t \in ElementTypes, content \in {sA, sCD} }

\* one page through the pipeline as the component runs it, the vision model
\* failing or typing its elements
TypeNext ==
  \/ \E n \in PageCounts : onDocumentLoadSuccess(n)
  \/ onDocumentLoadError
  \/ onPageLoadError
  \/ \E layer \in DocTextContents, cv \in Canvases, hasContext \in BOOLEAN :
       onPageLoadSuccess(layer, cv, hasContext)
  \/ \E ok \in BOOLEAN : renderDone(ok, FALSE)
  \/ \E resp \in GeminiResponses : extractTextWithGemini(resp)
  \/ \E resp \in TypedStructureResponses : analyzeStructure(resp)
  \/ \E outcome \in DocOcrOutcomes : tryOcrConfig(outcome)
  \/ reconcile
  \/ \E outcome \in DocOcrOutcomes : fallbackOcr(outcome)
  \/ \E outcome \in DocOcrOutcomes : plainOcr(outcome)
  \/ pageDone

TypeSpec == Init /\ [][TypeNext]_vars

\* ================================================================ claims
\* performEnhancedOCR returned a page on the given path
Returned(onPath) == path = onPath /\ pageResult # None

\* the attempts of the loop over ocrConfigs
PrimaryAttempts == SelectSeq(ocrOutcomes, LAMBDA a : a.path = "primary")

ReturnedWords(a) == IF a.outcome.kind = "data" THEN a.outcome.data.words ELSE <<>>

\* the non-blank items of the text layer of the loaded page
LayerItems == IF nativeLayer.kind = "items" THEN NativeItems(nativeLayer.items) ELSE <<>>

\* C1: whenever the page has a non-blank native text item, the page's Words
\* are exactly the native Words (one per non-blank item, confidence 0.98)
\* and the ladder took them from the native stage.  Stated for a page that
\* the primary path returned without entering its catch block.
C1_NativeLayerWins ==
  (Returned("primary") /\ LayerItems # <<>>)
    => /\ ladder.stage = "native"
       /\ pageResult.irPage.words = MapSeq(LayerItems, LAMBDA i : NativeWord(i, canvas))
       /\ \A k \in 1..Len(pageResult.irPage.words) :
            pageResult.irPage.words[k].confidence = ScoreToConf(NativeScore)

AllConfigsGaveOnlyLines ==
  /\ Len(PrimaryAttempts) = Len(OcrConfigs)
  /\ \A k \in 1..Len(PrimaryAttempts) :
       /\ PrimaryAttempts[k].outcome.kind = "data"
       /\ PrimaryAttempts[k].outcome.data.words = <<>>
       /\ UsableOcrLines(PrimaryAttempts[k].outcome.data.lines) # <<>>

C3_LinesWhenNoWords ==
  ( /\ Returned("primary")
    /\ NativeItems(pdfTextItems) = <<>>
    /\ AllConfigsGaveOnlyLines )
    => /\ ladder.stage = "ocrLines"
       /\ MapSeq(ladder.words, LAMBDA w : w.text)
            = Flatten(MapSeq(PrimaryAttempts[Len(OcrConfigs)].outcome.data.lines,
                             LAMBDA l : Tokens(l.text)))

\* C4: when the native layer, the OCR words, the OCR lines, the OCR text and
\* the vision-model text all yield nothing, the page's legacy chunks are the
\* single placeholder chunk, on every path.
NothingAvailable ==
  /\ LayerItems = <<>>
  /\ \A k \in 1..Len(ocrOutcomes) :
       ocrOutcomes[k].outcome.kind = "data"
         => /\ UsableOcrWords(ocrOutcomes[k].outcome.data.words) = <<>>
            /\ UsableOcrLines(ocrOutcomes[k].outcome.data.lines) = <<>>
            /\ Tokens(ocrOutcomes[k].outcome.data.text) = <<>>
  /\ geminiResult # None => Tokens(geminiResult.text) = <<>>
  /\ structureResult # None => Tokens(structureResult.completeText) = <<>>

C4_PlaceholderOnEveryPath ==
  (pageResult # None /\ NothingAvailable)
    => pageResult.legacyChunks
         = << MakeChunk(PlaceholderText, currentProcessingPage, Pct(10), Pct(10),
                        Pct(20), Pct(5)) >>

\* C5: when completeText is at most 1.2 times as long as the text of the
\* ladder's words, the repair adds nothing: words, lines, blocks and chunks
\* of the page are those of the ladder and the grouping.
WithinMargin ==
  Len(CompleteText(structureResult, geminiResult)) * 5
    <= Len(ExtractedText(ladder.words)) * 6

C5_NoRepairWithinMargin ==
  (Returned("primary") /\ WithinMargin)
    => /\ pageResult.irPage.words = ladder.words
       /\ pageResult.irPage.lines = MakeLines(ladder.words)
       /\ pageResult.irPage.blocks = MakeBlocks(MakeLines(ladder.words), structureResult)
       /\ pageResult.legacyChunks = ladder.legacyChunks

\* witness of C5: completeText is exactly 1.2 times as long as the text of
\* the words and names content the words do not hold
C5_Witness ==
  /\ Returned("primary")
  /\ Len(ladder.words) > 0
  /\ Len(CompleteText(structureResult, geminiResult)) * 5
       = Len(ExtractedText(ladder.words)) * 6
  /\ \E k \in 1..Len(structureResult.elements) :
       ~Includes(ToLower(ExtractedText(ladder.words)),
                 Trim(ToLower(structureResult.elements[k].content)))

\* C6 as stated: beyond the margin the repair adds at least one Block.
C6_RepairAddsBlock ==
  (Returned("primary") /\ ~WithinMargin)
    => Len(pageResult.irPage.blocks)
         > Len(MakeBlocks(MakeLines(ladder.words), structureResult))

\* some structural element has non-blank content that the recognised text
\* does not contain, case-insensitively
SomeElementMissing ==
  \E k \in 1..Len(structureResult.elements) :
    LET content == Trim(ToLower(structureResult.elements[k].content))
    IN content # <<>> /\ ~Includes(ToLower(ExtractedText(ladder.words)), content)

\* C6 amended: beyond the margin the repair fires, and it adds at least one
\* Block exactly when some structural element has non-blank content that is
\* not a case-insensitive substring of the recognised text.
C6_RepairAddsBlockIffMissing ==
  (Returned("primary") /\ ~WithinMargin)
    => ( Len(pageResult.irPage.blocks)
           > Len(MakeBlocks(MakeLines(ladder.words), structureResult))
         <=> SomeElementMissing )

C6_Witness ==
  /\ Returned("primary")
  /\ ~WithinMargin
  /\ Len(ladder.words) > 0
  /\ SomeElementMissing
  /\ Len(pageResult.irPage.blocks)
       > Len(MakeBlocks(MakeLines(ladder.words), structureResult))

\* C7: when the text-extraction call fails, no vision-model call is made
\* again for the page, recognition runs at most once and only with the
\* fixed parameters of the catch block, and once that recognition succeeded
\* the page is returned and the error callback is not invoked.
TextExtractionFailed == visionCalls # <<>> /\ geminiResult = None

C7_VisionFailureFallsBack ==
  TextExtractionFailed
    => /\ visionCalls = <<"extractTextWithGemini">>
       /\ Len(ocrOutcomes) <= 1
       /\ \A k \in 1..Len(ocrCalls) : ocrCalls[k] = FallbackParams
       /\ (ocrOutcomes # <<>> /\ ocrOutcomes[1].outcome.kind = "data")
            => /\ pageResult # None
               /\ Len(ocrCalls) = 1
               /\ errors = <<>>
               /\ pc \in {"assemble", "done"}

C7_Witness ==
  /\ TextExtractionFailed
  /\ pc = "done"
  /\ Len(ocrCalls) = 1
  /\ completions # <<>>
  /\ errors = <<>>

\* C8: on the vision-failure path the Lines are grouped into Blocks by the
\* vertical-gap rule and a Block's confidence is the mean over its Lines of
\* the mean confidence of the Line's Words.
C8_FallbackBlocksGrouped ==
  (Returned("fallback") /\ TextExtractionFailed)
    => LET blocks == pageResult.irPage.blocks
           groups == groupLinesIntoBlocks(pageResult.irPage.lines)
       IN /\ Len(blocks) = Len(groups)
          /\ \A k \in 1..Len(blocks) :
               /\ blocks[k].lines = groups[k]
               /\ blocks[k].confidence = MeanLineConfidence(groups[k])

\* C9: the configurations are tried in list order; one is tried only if
\* every earlier one threw or returned no words; the first that returns a
\* word ends the loop and supplies the OCR result, which is always the
\* result of one single configuration.
C9_FirstSuccessInOrder ==
  LET P == PrimaryAttempts
  IN /\ \A k \in 1..Len(P) :
          /\ P[k].config = k
          /\ \A j \in 1..(k - 1) : ReturnedWords(P[j]) = <<>>
          /\ ReturnedWords(P[k]) # <<>> => (k = Len(P) /\ ocrData = P[k].outcome.data)
     /\ (\A k \in 1..Len(P) : ReturnedWords(P[k]) = <<>>) => ocrData = NoData
     /\ (pc = "ocr" /\ P # <<>>) => ReturnedWords(P[Len(P)]) = <<>>

C9_Witness ==
  LET P == PrimaryAttempts
  IN /\ Len(P) = 3
     /\ P[1].outcome.kind = "throwRecognize"
     /\ P[2].outcome.kind = "data"
     /\ \E k \in 1..Len(ReturnedWords(P[3])) : NonBlank(ReturnedWords(P[3])[k].text)
     /\ ocrData = P[3].outcome.data
     /\ pc = "done"

\* C10: no two recognition calls of a page run with the same configuration
\* (page-segmentation mode together with the other parameters).
C10_NoConfigurationTwice ==
  \A i, j \in 1..Len(ocrCalls) : i < j => ocrCalls[i] # ocrCalls[j]

\* ------------------------------------------------- claims on the document
\* comparison of two progress values <<num, den>>
Leq(a, b) == a[1] * b[2] <= b[1] * a[2]
Below100(a) == a[1] < 100 * a[2]
Is100(a) == a[1] = 100 * a[2]

PageNumbers(ps) == [i \in 1..Len(ps) |-> ps[i].pageNumber]
UpTo(n) == [i \in 1..n |-> i]

\* the pipeline of page currentProcessingPage has started and not ended
InFlight ==
  pc \in {"render", "gemini", "structure", "textContent", "ocr", "reconcile",
          "fallbackOcr", "plainOcr", "assemble"}

\* the pages whose pipeline has started, in the order of their first
\* progress milestone
StartedPages ==
  LET starts == SelectSeq(progress,
                  LAMBDA v : \E q \in 1..numPages : v = PageProgress(q, 1))
  IN [i \in 1..Len(starts) |->
        CHOOSE q \in 1..numPages : starts[i] = PageProgress(q, 1)]

\* C11: pages are started in the order 1, 2, ..., and while the pipeline of
\* page p is in flight every earlier page has finished and been appended to
\* both lists and no later page has started: at most one page is in flight.
C11_OnePageInFlight ==
  /\ StartedPages = UpTo(Len(StartedPages))
  /\ Len(StartedPages) <= Len(allPages) + 1
  /\ InFlight =>
       /\ Len(StartedPages) = currentProcessingPage
       /\ PageNumbers(allPages) = UpTo(currentProcessingPage - 1)
       /\ PageNumbers(irPages) = UpTo(currentProcessingPage - 1)

C11_Witness == InFlight /\ currentProcessingPage = 2 /\ Len(allPages) = 1

\* C12: the values passed to the progress callback (10 at document load,
\* six milestones per page, then the final value) never decrease and every
\* one of them lies in [0, 100].
C12_ProgressMonotone ==
  /\ \A i \in 1..Len(progress) :
       /\ 0 <= progress[i][1]
       /\ progress[i][1] <= 100 * progress[i][2]
  /\ \A i \in 1..(Len(progress) - 1) : Leq(progress[i], progress[i + 1])

C12_Witness ==
  pc = "done" /\ numPages > 1 /\ Len(progress) = 6 * numPages + 2

\* C13: 100 is reported exactly once per successful run, after the
\* completion callback was invoked for the last page, and every value
\* reported before it is strictly below 100.
C13_HundredOnlyAfterCompletion ==
  /\ Len(completions) <= 1
  /\ Len(SelectSeq(progress, Is100)) = Len(completions)
  /\ completions = <<>> => pc # "done"
  /\ \A c \in 1..Len(completions) :
       /\ PageNumbers(completions[c].pages)[Len(completions[c].pages)] = numPages
       /\ progress = Append(completions[c].reported, <<100, 1>>)
       /\ \A i \in 1..Len(completions[c].reported) : Below100(completions[c].reported[i])

C13_Witness == pc = "done" /\ numPages > 1 /\ Is100(progress[Len(progress)])

\* the run has ended in a call of the completion or of the error callback
Ended ==
  \/ pc = "done" /\ completions # <<>>
  \/ pc = "halted" /\ errors # <<>>

\* C14: when every pending collaborator call eventually returns or throws,
\* every document load ends in an invocation of the completion callback or
\* of the error callback.
C14_EveryLoadEnds == (pc # "idle") ~> Ended

C14_Witness == pc = "done" /\ numPages > 1 /\ completions # <<>> /\ errors = <<>>

\* a step of the page's pipeline threw: a vision-model call or a statement
\* of the primary path (caught), or a recognition attempt
StepThrew ==
  \/ caught # None
  \/ \E i \in 1..Len(ocrOutcomes) : ocrOutcomes[i].outcome.kind # "data"

\* a throw that the extraction does not catch: the recognition of the catch
\* block or of the path without advanced processing
OcrEscaped ==
  \E i \in 1..Len(ocrOutcomes) :
    /\ ocrOutcomes[i].path \in {"fallback", "plain"}
    /\ ocrOutcomes[i].outcome.kind # "data"

PageReported(message) ==
  /\ errors # <<>>
  /\ errors[Len(errors)] = <<"Failed to process page", currentProcessingPage, message>>

NoPartialResult ==
  /\ \A i \in 1..Len(allPages) : allPages[i].pageNumber # currentProcessingPage
  /\ \A i \in 1..Len(irPages) : irPages[i].pageNumber # currentProcessingPage

\* C15 as stated: once the pipeline of a page in which any step threw has
\* ended, the error callback was invoked for that page and the page is in
\* neither list.
C15_AnyThrowReported ==
  (StepThrew /\ pc \in {"done", "halted"})
    => /\ \E m \in {"throwSetParameters", "throwRecognize"} : PageReported(m)
       /\ NoPartialResult

\* C15 (amended): a throw that reaches the catch of the page-completion
\* handler (no canvas context, a failed render, the recognition of the
\* catch block or of the path without advanced processing) ends the run
\* with "Failed to process page p: <message>" for the page p being
\* processed, and page p is in neither list and no completion is reported.
C15_EscapingThrowReported ==
  /\ OcrEscaped =>
       /\ pc = "halted"
       /\ \E m \in {"throwSetParameters", "throwRecognize"} : PageReported(m)
  /\ (pc = "halted" /\ errors # <<>> /\ errors[Len(errors)][1] = "Failed to process page")
       => /\ errors[Len(errors)][2] = currentProcessingPage
          /\ Len(errors) = 1
          /\ NoPartialResult
          /\ completions = <<>>

C15_Witness == OcrEscaped /\ currentProcessingPage = 2 /\ pc = "halted"

\* strictly increasing page numbers
StrictlySorted(ps) ==
  \A i \in 1..(Len(ps) - 1) : ps[i].pageNumber < ps[i + 1].pageNumber

\* C16: both accumulated lists are always sorted by strictly increasing
\* pageNumber (no page twice), and the lists handed to the completion
\* callback hold exactly the pages 1..N, each once.
C16_PagesSortedAndComplete ==
  /\ StrictlySorted(allPages)
  /\ StrictlySorted(irPages)
  /\ \A c \in 1..Len(completions) :
       /\ PageNumbers(completions[c].pages) = UpTo(numPages)
       /\ PageNumbers(completions[c].irPages) = UpTo(numPages)

C16_Witness == pc = "done" /\ numPages > 1 /\ Len(completions[1].pages) = numPages

\* ------------------------------------------------ claims on the final chunks
\* what identifies a chunk: its level, its id and its page
ChunkKey(chunk) == <<chunk.level, chunk.id, chunk.pageNumber>>
BlockKey(page, block) == <<"block", block.id, page.pageNumber>>
WordKey(page, block, l, w) ==
  <<"word", <<block.id, "line", l - 1, "word", w - 1>>, page.pageNumber>>

\* one block-level key followed by one word-level key per Word of the
\* Block, in line order then word order, for the Blocks that keepBlock
\* admits and the Words that keepWord admits
KeysOfBlock(page, block, keepWord(_)) ==
  <<BlockKey(page, block)>>
    \o Flatten([l \in 1..Len(block.lines) |->
         LET n == Len(block.lines[l].words)
             kept == SelectSeq([w \in 1..n |-> w],
                               LAMBDA w : keepWord(block.lines[l].words[w]))
         IN [k \in 1..Len(kept) |-> WordKey(page, block, l, kept[k])]])

KeysOfPages(pages, keepBlock(_), keepWord(_)) ==
  Flatten([p \in 1..Len(pages) |->
    Flatten([b \in 1..Len(pages[p].blocks) |->
      IF keepBlock(pages[p].blocks[b])
      THEN KeysOfBlock(pages[p], pages[p].blocks[b], keepWord)
      ELSE <<>>])])

Always(x) == TRUE
BlockHasText(block) == NonBlank(LinesText(block.lines))
WordHasText(word) == NonBlank(word.text)

Reorderings(ws) ==
  { [i \in 1..Len(ws) |-> ws[f[i]]] : f \in Permutations(1..Len(ws)) }

\* the partition of the Words into Lines, and of the Lines into Blocks
LinePartition(g) ==
  { { g.lines[l].words[w] : w \in 1..Len(g.lines[l].words) } : l \in 1..Len(g.lines) }
BlockPartition(g) ==
  { { { g.blocks[b][l].words[w] : w \in 1..Len(g.blocks[b][l].words) }
      : l \in 1..Len(g.blocks[b]) } : b \in 1..Len(g.blocks) }

\* C18: groupWordsIntoLines followed by groupLinesIntoBlocks yields the same
\* partition into Lines and Blocks for every permutation of the input array.
C18_OrderIndependent ==
  grouping # None =>
    \A ws \in Reorderings(inputWords) :
      /\ LinePartition(GroupOf(ws)) = LinePartition(grouping)
      /\ BlockPartition(GroupOf(ws)) = BlockPartition(grouping)

\* every two Words of the array differ in bbox.y by more than 0.02
FarApart(ws) ==
  \A i, j \in 1..Len(ws) :
    i # j => Abs(ws[i].bbox.y - ws[j].bbox.y) > LineThreshold

\* C19: when every two input Words differ in vertical position by more than
\* 0.02, groupWordsIntoLines returns exactly one Line per Word.
C19_OneLinePerWord ==
  (grouping # None /\ FarApart(inputWords))
    => /\ Len(grouping.lines) = Len(inputWords)
       /\ \A l \in 1..Len(grouping.lines) : Len(grouping.lines[l].words) = 1

C19_Witness ==
  /\ grouping # None /\ FarApart(inputWords) /\ Len(inputWords) > 2
  /\ inputWords[1].bbox.y > inputWords[2].bbox.y
  /\ Len(grouping.lines) = Len(inputWords)

\* ------------------------------------------- claims on the bounding boxes
\* width > 0, height > 0, and the box inside the page [0, 1] x [0, 1]
ValidBox(b) ==
  /\ b.width > 0 /\ b.height > 0
  /\ b.x >= 0 /\ b.y >= 0
  /\ b.x + b.width <= Unit
  /\ b.y + b.height <= Unit

\* the boxes of the Words, Lines and Blocks of an IR page
PageBoxes(page) ==
  { page.words[i].bbox : i \in 1..Len(page.words) }
    \cup { page.lines[i].bbox : i \in 1..Len(page.lines) }
    \cup { page.blocks[i].bbox : i \in 1..Len(page.blocks) }

\* C20: every BoundingBox of a Word, Line or Block of the IR page that an
\* extraction path returns has width > 0, height > 0, x >= 0, y >= 0,
\* x + width <= 1 and y + height <= 1.
C20_BoxesInsidePage ==
  pageResult # None => \A b \in PageBoxes(pageResult.irPage) : ValidBox(b)

\* ------------------------------------------------ claims on the IR pages
\* the Words of the page have text that is not empty after trimming
WordsHaveText(page) ==
  \A i \in 1..Len(page.words) : NonBlank(page.words[i].text)

\* C21: every Word stored in an IR page, on every extraction path (the
\* splitting of OCR lines, the text flow and the repair included), has text
\* that is not empty after trimming.
C21_WordsHaveText ==
  /\ pageResult # None => WordsHaveText(pageResult.irPage)
  /\ \A p \in 1..Len(irPages) : WordsHaveText(irPages[p])

\* x, y, w and h of a geometry lie in [0, 100], hundred being given in the
\* unit the geometry is kept in
InPercentRange(g, hundred) ==
  \A v \in {g.x, g.y, g.w, g.h} : 0 <= v /\ v <= hundred

\* the legacy chunks a page was returned with
PageChunksInRange(chunks) ==
  \A k \in 1..Len(chunks) : InPercentRange(chunks[k].geometry, Pct(100))

\* the chunks of the final list: a block-level chunk holds the normalised
\* box times the page's pixel size, a word-level chunk the box times 100
FinalChunksInRange(chunks) ==
  \A k \in 1..Len(chunks) :
    InPercentRange(chunks[k].geometry,
                   IF chunks[k].level = "block" THEN 100 * Unit ELSE Pct(100))

\* C22: every LegacyTextChunk built for a page or for the final chunk list,
\* on every extraction path, has x, y, w and h in percentage units within
\* [0, 100].
C22_ChunksInPercent ==
  /\ pageResult # None => PageChunksInRange(pageResult.legacyChunks)
  /\ \A c \in 1..Len(completions) : FinalChunksInRange(completions[c].chunks)

\* the indices of the structural elements whose lower-cased trimmed content
\* is not empty and contains, or is contained in, the lower-cased text of
\* the Block
MatchingElements(block, elements) ==
  LET blockText == Trim(ToLower(LinesText(block.lines)))
  IN { k \in 1..Len(elements) :
         LET elementText == Trim(ToLower(elements[k].content))
         IN /\ elementText # <<>>
            /\ Includes(blockText, elementText) \/ Includes(elementText, blockText) }

\* the Blocks of the page that the grouping produced
GeometricBlocks(page) == SelectSeq(page.blocks, LAMBDA b : b.id[1] = "block")

\* C23: each geometric Block of the primary path has the type and the
\* semantic role of the first structural element, in returned order, whose
\* lower-cased trimmed content contains or is contained in the Block's
\* lower-cased text; without such an element the Block is a paragraph of
\* confidence 0.8 without role.
C23_FirstMatchingElement ==
  Returned("primary") =>
    \A b \in 1..Len(GeometricBlocks(pageResult.irPage)) :
      LET block == GeometricBlocks(pageResult.irPage)[b]
          hits == MatchingElements(block, structureResult.elements)
      IN IF hits = {}
         THEN /\ block.type = "paragraph"
              /\ block.confidence = ScoreToConf(DefaultBlockScore)
              /\ block.semanticRole = Undefined
         ELSE LET element == structureResult.elements[SetMin(hits)]
              IN /\ block.type = mapElementTypeToBlockType(element.type)
                 /\ block.semanticRole = element.type

\* ------------------------------------------- claims on the failure handling
\* C24: when the text-extraction call of the vision model fails, the catch
\* block logs the failure by its status: 503 as service unavailable, any
\* other status of 400 or more as an API error, no status as unknown.
C24_ClassifiedByStatus ==
  (TextExtractionFailed /\ caught # None)
    => caught.logged = FailureClass([status |-> caught.error.cause])

\* ------------------------------------------ claims on the grouping functions
\* the vertical centres of two Words differ by less than 0.02 (twice the
\* centre, y + y + height, is compared with twice the threshold)
CentresClose(a, b) ==
  Abs((2 * a.bbox.y + a.bbox.height) - (2 * b.bbox.y + b.bbox.height))
    < 2 * LineThreshold

\* C25: in the scan of groupWordsIntoLines a Word joins the current Line
\* exactly when its vertical centre differs from the vertical centre of the
\* Line's last Word by less than 0.02: the Words that follow each other in a
\* Line are that close, and the first Word of a Line is not that close to
\* the last Word of the Line before.
C25_JoinsByCentre ==
  grouping # None =>
    /\ \A l \in 1..Len(grouping.lines) :
         \A w \in 1..(Len(grouping.lines[l].words) - 1) :
           CentresClose(grouping.lines[l].words[w + 1], grouping.lines[l].words[w])
    /\ \A l \in 1..(Len(grouping.lines) - 1) :
         ~CentresClose(grouping.lines[l + 1].words[1],
                       grouping.lines[l].words[Len(grouping.lines[l].words)])

\* the top of the line next lies more than 0.03 below the bottom of prev
GapExceeds(next, prev) ==
  next.bbox.y - (prev.bbox.y + prev.bbox.height) > BlockGapThreshold

\* C26: groupLinesIntoBlocks partitions the ordered Lines into contiguous
\* runs that keep their order: the Blocks are not empty, put end to end
\* they are the input Lines, two Lines that follow each other in a Block
\* have a gap of at most 0.03, and the first Line of a Block lies more than
\* 0.03 below the bottom of the last Line of the Block before.
C26_BlocksAreRuns ==
  grouping # None =>
    /\ Flatten(grouping.blocks) = grouping.lines
    /\ \A b \in 1..Len(grouping.blocks) :
         /\ Len(grouping.blocks[b]) > 0
         /\ \A l \in 1..(Len(grouping.blocks[b]) - 1) :
              ~GapExceeds(grouping.blocks[b][l + 1], grouping.blocks[b][l])
    /\ \A b \in 1..(Len(grouping.blocks) - 1) :
         GapExceeds(grouping.blocks[b + 1][1],
                    grouping.blocks[b][Len(grouping.blocks[b])])

\* three Lines of which the second stays in the Block of the first and the
\* third starts a Block, handed over in another order than the sorted one
C26_Witness ==
  /\ grouping # None
  /\ Len(grouping.lines) = 3
  /\ Len(grouping.blocks) = 2
  /\ Len(grouping.blocks[1]) = 2
  /\ inputWords[1].bbox.y > inputWords[3].bbox.y

\* box is the least axis-aligned box that covers every box of the list:
\* each of its four edges bounds all the boxes and touches one of them
MinimalCover(box, bboxes) ==
  LET idx == 1..Len(bboxes)
  IN /\ \A i \in idx : /\ box.x <= bboxes[i].x
                       /\ box.y <= bboxes[i].y
                       /\ bboxes[i].x + bboxes[i].width <= box.x + box.width
                       /\ bboxes[i].y + bboxes[i].height <= box.y + box.height
     /\ \E i \in idx : box.x = bboxes[i].x
     /\ \E i \in idx : box.y = bboxes[i].y
     /\ \E i \in idx : bboxes[i].x + bboxes[i].width = box.x + box.width
     /\ \E i \in idx : bboxes[i].y + bboxes[i].height = box.y + box.height

\* the boxes of a list of Words
BoxesOf(ws) == MapSeq(ws, LAMBDA w : w.bbox)

\* C27: calculateBoundingBox returns the least axis-aligned box covering
\* every box of a list that is not empty, and the zero box {0, 0, 0, 0} for
\* the empty list; checked on the box of all the Words handed to the
\* grouping and on the box of every Line.
C27_MinimalCover ==
  grouping # None =>
    /\ IF inputWords = <<>> THEN grouping.bbox = BBox(0, 0, 0, 0)
       ELSE MinimalCover(grouping.bbox, BoxesOf(inputWords))
    /\ \A l \in 1..Len(grouping.lines) :
         MinimalCover(grouping.lines[l].bbox, BoxesOf(grouping.lines[l].words))

\* three Words of two heights on one Line, none of which has all four edges
\* of the box
C27_Witness ==
  /\ grouping # None
  /\ Len(inputWords) = 3
  /\ Len(grouping.lines) = 1
  /\ \A i \in 1..3 : inputWords[i].bbox # grouping.bbox
  /\ inputWords[1].bbox.x > grouping.bbox.x
  /\ inputWords[1].bbox.height < grouping.bbox.height

\* ------------------------------------------- claims on the derived fields
\* the bbox of every Line is the union of its Words' boxes and the bbox of
\* every Block the union of its Lines' boxes
BoxesAreUnions(page) ==
  /\ \A l \in 1..Len(page.lines) :
       page.lines[l].bbox = calculateBoundingBox(BoxesOf(page.lines[l].words))
  /\ \A b \in 1..Len(page.blocks) :
       page.blocks[b].bbox
         = calculateBoundingBox(MapSeq(page.blocks[b].lines, LAMBDA line : line.bbox))

\* C28: in every IR page each Line's bbox equals the union of its Words'
\* boxes and each Block's bbox the union of its Lines' boxes, the Lines and
\* Blocks appended by the repair included.
C28_BoxesAreUnions ==
  /\ pageResult # None => BoxesAreUnions(pageResult.irPage)
  /\ \A p \in 1..Len(irPages) : BoxesAreUnions(irPages[p])

\* the readingOrder values of the Lines and of the Blocks are 0, 1, 2, ...
\* in array order
ReadingOrderConsecutive(page) ==
  /\ \A l \in 1..Len(page.lines) : page.lines[l].readingOrder = l - 1
  /\ \A b \in 1..Len(page.blocks) : page.blocks[b].readingOrder = b - 1

\* C29: within each IR page the readingOrder values of the Lines are the
\* consecutive numbers 0..n-1 in array order, and likewise those of the
\* Blocks, the entries appended by the repair included.
C29_ReadingOrderConsecutive ==
  /\ pageResult # None => ReadingOrderConsecutive(pageResult.irPage)
  /\ \A p \in 1..Len(irPages) : ReadingOrderConsecutive(irPages[p])

\* ------------------------------------------------- claims on the repair
\* the structural elements whose trimmed content is not empty and is not a
\* case-insensitive substring of the recognised text, in element order
UncoveredElements ==
  SelectSeq(structureResult.elements,
            LAMBDA element :
              /\ Trim(element.content) # <<>>
              /\ ~Includes(ToLower(ExtractedText(ladder.words)),
                           ToLower(Trim(element.content))))

\* the entries of a list of the page that follow those of the grouping
AppendedLines ==
  SubSeq(pageResult.irPage.lines, Len(MakeLines(ladder.words)) + 1,
         Len(pageResult.irPage.lines))
AppendedBlocks ==
  SubSeq(pageResult.irPage.blocks, Len(groupLinesIntoBlocks(MakeLines(ladder.words))) + 1,
         Len(pageResult.irPage.blocks))

\* the characters of a text that are not white space
Letters(s) == SelectSeq(s, LAMBDA c : ~IsWs(c))

\* C30: when the repair fires, exactly one Block holding exactly one Line is
\* appended per structural element whose trimmed content is not empty and
\* is not a case-insensitive substring of the recognised text, in element
\* order, the i-th (from 0) at y = 0.8 + 0.05 * i; the other elements add
\* nothing.
C30_OneBlockPerUncoveredElement ==
  (Returned("primary") /\ ~WithinMargin)
    => /\ Len(AppendedBlocks) = Len(UncoveredElements)
       /\ Len(AppendedLines) = Len(UncoveredElements)
       /\ \A i \in 1..Len(UncoveredElements) :
            LET block == AppendedBlocks[i]
                element == UncoveredElements[i]
            IN /\ block.lines = <<AppendedLines[i]>>
               /\ block.bbox.y = (8 * Unit) \div 10 + (i - 1) * ((5 * Unit) \div 100)
               /\ block.lines[1].bbox.y = block.bbox.y
               /\ block.semanticRole = element.type
               /\ Flatten(MapSeq(block.lines[1].words, LAMBDA w : w.text))
                    = Letters(element.content)

\* the repair fired on a page that had Words; it skipped an element whose
\* content the Words hold and appended Blocks for an element before it and
\* an element after it
C30_Witness ==
  /\ Returned("primary") /\ ~WithinMargin
  /\ Len(ladder.words) > 0
  /\ Len(structureResult.elements) = 3
  /\ Len(UncoveredElements) = 2
  /\ UncoveredElements[1] = structureResult.elements[1]
  /\ UncoveredElements[2] = structureResult.elements[3]
  /\ Len(AppendedBlocks) = 2
  /\ AppendedBlocks[2].bbox.y > AppendedBlocks[1].bbox.y

\* ------------------------------------------------ claims on the OCR workers
\* the OCR workers that exist: created and not yet terminated
LiveWorkers == workers.created - workers.terminated

\* performEnhancedOCR has returned or thrown for the current page, or has
\* not been called yet
OutsidePipeline == pc \in {"idle", "pageLoading", "render", "assemble", "halted", "done"}

\* C31: every OCR worker created during a page's pipeline is terminated
\* before the pipeline returns or throws, on every path, and at most one
\* OCR worker exists at any time.
C31_WorkersTerminated ==
  /\ LiveWorkers \in {0, 1}
  /\ OutsidePipeline => LiveWorkers = 0

\* the primary path threw after its recognition, the catch block created a
\* second worker, and its recognition threw as well
C31_Witness ==
  /\ pc = "halted" /\ path = "fallback"
  /\ workers.created = 2 /\ workers.terminated = 2
  /\ Len(ocrOutcomes) > 1
  /\ ocrOutcomes[Len(ocrOutcomes)].outcome.kind # "data"

\* a vision-model call of the current page is awaited
VisionInFlight == pc \in {"gemini", "structure"}

\* both vision-model calls have resolved, the text extraction first
BothVisionCallsResolved ==
  /\ visionCalls = <<"extractTextWithGemini", "analyzeDocumentStructure">>
  /\ geminiResult # None
  /\ structureResult # None

\* C32: in the primary path no OCR worker is created and no recognition
\* starts until both vision-model calls (the text extraction, then the
\* structure analysis) have resolved, so no worker exists and nothing has
\* been recognised while a vision-model call is awaited.
C32_VisionBeforeOcr ==
  /\ VisionInFlight
       => LiveWorkers = 0 /\ workers.created = 0 /\ ocrOutcomes = <<>> /\ ocrCalls = <<>>
  /\ (path = "primary" /\ workers.created > 0) => BothVisionCallsResolved
  /\ (\E k \in 1..Len(ocrOutcomes) : ocrOutcomes[k].path = "primary")
       => BothVisionCallsResolved

\* the primary path read the text layer after both calls and is recognising
\* with its second configuration
C32_Witness ==
  /\ path = "primary" /\ pc = "ocr"
  /\ pdfPage /\ pdfTextItems # <<>>
  /\ Len(ocrOutcomes) = 1 /\ LiveWorkers = 1
  /\ BothVisionCallsResolved

\* ---------------------------------------------- claims on the text flow
\* the box lies inside the page margins of the text flow
InsideMargins(b) ==
  /\ b.x >= (6 * Unit) \div 100
  /\ b.x + b.width <= (94 * Unit) \div 100
  /\ b.y >= (8 * Unit) \div 100
  /\ b.y + b.height <= (92 * Unit) \div 100

\* C33: every Word that the text-flow stage synthesises from the
\* vision-model text lies inside the fixed page margins: x >= 0.06,
\* x + width <= 0.94, y >= 0.08 and y + height <= 0.92.
C33_FlowInsideMargins ==
  flowWords # None =>
    \A k \in 1..Len(flowWords.words) : InsideMargins(flowWords.words[k].bbox)

\* --------------------------------------------- claims on the line synthesis
\* C34: every Word synthesised from an OCR line carries the line's
\* confidence, the line's reported score divided by 100, for every reported
\* score in 0..100.
C34_LineConfidenceKept ==
  lineWords # None =>
    /\ lineWords.stage = "ocrLines"
    /\ Len(lineWords.words) = 2
    /\ \A k \in 1..Len(lineWords.words) :
         lineWords.words[k].confidence = ScoreToConf(lineScore)

\* ---------------------------------------------------------------- C35
\* C35: all chunks of the final chunk list have pairwise distinct ids, for
\* documents with any number of pages and any number of blocks per page
C35_ChunkIdsDistinct ==
  \A c \in 1..Len(completions) :
    \A i, j \in 1..Len(completions[c].chunks) :
      i # j => completions[c].chunks[i].id # completions[c].chunks[j].id

\* ---------------------------------------------------------------- C36
\* the legacy chunks of a returned page answer its Words one-to-one and in
\* order, with the same text
ChunksFollowWords(r) ==
  /\ Len(r.legacyChunks) = Len(r.irPage.words)
  /\ \A k \in 1..Len(r.irPage.words) : r.legacyChunks[k].text = r.irPage.words[k].text

\* the "No text detected" placeholder is among the legacy chunks
HasPlaceholder(r) ==
  \E k \in 1..Len(r.legacyChunks) : r.legacyChunks[k].text = PlaceholderText

\* C36: after a page is processed, if the page has at least one Word then
\* its legacy chunks correspond one-to-one and in order with its Words (same
\* text); the "No text detected" placeholder chunk is present only when the
\* page has zero Words.
C36_ChunksFollowWords ==
  pageResult # None =>
    /\ pageResult.irPage.words # <<>> => ChunksFollowWords(pageResult)
    /\ HasPlaceholder(pageResult) => pageResult.irPage.words = <<>>

\* ---------------------------------------------------------------- C37
\* how often each member occurs in a sequence
Occurrences(s) ==
  [x \in {s[i] : i \in 1..Len(s)} |-> Cardinality({i \in 1..Len(s) : s[i] = x})]

\* the Words held by the Lines of a page, and the Lines held by its Blocks
WordsOfLines(page) == Flatten([l \in 1..Len(page.lines) |-> page.lines[l].words])
LinesOfBlocks(page) == Flatten([b \in 1..Len(page.blocks) |-> page.blocks[b].lines])

\* every Word is held by exactly one Line and every Line by exactly one Block
Partitioned(page) ==
  /\ Occurrences(WordsOfLines(page)) = Occurrences(page.words)
  /\ Occurrences(LinesOfBlocks(page)) = Occurrences(page.lines)

\* C37: in every IR page produced on any path, each Word of the page's word
\* list belongs to exactly one Line of the page's line list and each Line
\* belongs to exactly one Block of the page's block list: no Word or Line is
\* missing from, or shared between, parents.
C37_WordsAndLinesPartitioned ==
  /\ pageResult # None => Partitioned(pageResult.irPage)
  /\ \A p \in 1..Len(irPages) : Partitioned(irPages[p])

C37_Witness ==
  /\ pageResult # None /\ path = "primary"
  /\ Len(pageResult.irPage.words) > Len(pageResult.irPage.lines)
  /\ Len(pageResult.irPage.blocks) > 1
  /\ \E b \in 1..Len(pageResult.irPage.blocks) :
       pageResult.irPage.blocks[b].id[1] = "fallback-block"
  /\ Partitioned(pageResult.irPage)

\* ---------------------------------------------------------------- C38
BlockTypes == {"paragraph", "heading", "list", "table", "footer", "image"}
BlockChunkTypes == {"text", "title", "list", "table", "footer", "figure"}

\* a Block classified by an element carries the element's type as its role:
\* title and header give heading, a type the switch does not name paragraph
TypedAsElement(block) ==
  /\ block.type \in BlockTypes
  /\ block.semanticRole \in {"title", "Title", "header", "HEADER"}
       => block.type = "heading"
  /\ block.semanticRole \in {"heading", "caption", "form_field", "sidebar", ""}
       => block.type = "paragraph"

BlocksTyped(page) == \A b \in 1..Len(page.blocks) : TypedAsElement(page.blocks[b])

\* C38: every Block's type is one of paragraph, heading, list, table, footer,
\* image for any element type string returned by the vision model (title and
\* header map to heading, unknown types to paragraph), and every block-level
\* chunk's chunk_type is one of the six values text, title, list, table,
\* footer, figure.
C38_TypesInRange ==
  /\ pageResult # None => BlocksTyped(pageResult.irPage)
  /\ \A p \in 1..Len(irPages) : BlocksTyped(irPages[p])
  /\ \A c \in 1..Len(completions) : \A k \in 1..Len(completions[c].chunks) :
       completions[c].chunks[k].level = "block"
         => completions[c].chunks[k].chunk_type \in BlockChunkTypes

C38_Witness ==
  /\ completions # <<>>
  /\ \E b \in 1..Len(irPages[1].blocks) :
       /\ irPages[1].blocks[b].semanticRole = "sidebar"
       /\ irPages[1].blocks[b].type = "paragraph"
  /\ \E k \in 1..Len(completions[1].chunks) :
       /\ completions[1].chunks[k].level = "block"
       /\ completions[1].chunks[k].semantic_role = "sidebar"
       /\ completions[1].chunks[k].chunk_type = "text"

\* ---------------------------------------------------------------- C39
\* the remote call of analyzeDocumentStructure fails
StructureFailure == [kind |-> "error", status |-> 503]

\* a result of exactly one paragraph element holding the given text, which
\* is the complete text as well
OneParagraphOf(result, text) ==
  /\ Len(result.elements) = 1
  /\ result.elements[1].type = "paragraph"
  /\ result.elements[1].content = text
  /\ result.completeText = text

\* the page is in the catch block because the text extraction failed, and
\* the structure analysis was not reached
SentByTextExtraction ==
  /\ caught # None
  /\ caught.error.message = "Gemini text extraction failed"
  /\ visionCalls = <<"extractTextWithGemini">>
  /\ structureResult = None

\* C39: analyzeDocumentStructure never propagates an error: on a remote-call
\* failure it returns a result with exactly one paragraph element whose
\* content and completeText both equal the supplied fallback text (or the
\* empty string when none was supplied), so only a failure of the
\* text-extraction call can send a page to the OCR-only fallback path.
C39_StructureFailureAbsorbed ==
  /\ [][analyzeStructure(StructureFailure)
          => /\ OneParagraphOf(structureResult', geminiResult.text)
             /\ path' = path /\ path' # "fallback"
             /\ caught' = None]_vars
  /\ [](path = "fallback" => SentByTextExtraction)

C39_Witness ==
  /\ path = "primary" /\ pageResult # None /\ caught = None
  /\ visionCalls = <<"extractTextWithGemini", "analyzeDocumentStructure">>
  /\ geminiResult.text = sA
  /\ OneParagraphOf(structureResult, sA)
  /\ structureResult.elements[1].confidence = ScoreToConf(50)

\* ---------------------------------------------------------------- C40
\* C40: the completion callback is invoked at most once per document load,
\* only by the pipeline of the last page (page number equal to the page
\* count), and never after the error callback has been invoked for that load.
C40_CompletionOnceByLastPage ==
  /\ [](Len(completions) <= 1)
  /\ [][completions' # completions
          => /\ Len(completions') = Len(completions) + 1
             /\ currentProcessingPage = numPages
             /\ errors = <<>>]_vars

C40_Witness ==
  /\ pc = "done" /\ numPages > 2 /\ currentProcessingPage = numPages
  /\ Len(completions) = 1 /\ errors = <<>>
  /\ Len(progress) > 0

====
